---- MODULE Spec2Model ----
(***************************************************************************)
(* The memory store of the chat bot (memory.go): one worker goroutine,     *)
(* memoryLoop, owns the sqlite tables `contexts` (the event log) and       *)
(* `summaries` (the rolling summary snapshots) and serves the requests     *)
(* that handler goroutines send on the unbuffered channel MemoryChan.      *)
(* The recall actor (recall.go): one worker goroutine, recallLoop, embeds  *)
(* a handler's text and queries the vector index for a character's posts,  *)
(* serving the requests sent on the unbuffered channel RecallChan.         *)
(***************************************************************************)
EXTENDS Integers, Sequences, FiniteSets, TLC

\* ------------------------------------------------------------------ bounds
\* Largest event log found in data/memory.db when the worker starts.
MaxBacklog == 120
\* Requests (UpdateMemory / GetMemorySummary calls) the handlers issue in a run.
MaxRequests == 4

\* const maxContexts = 50 in updateSummary.
maxContexts == 50

\* Handler goroutines calling into the memory store, and Discord channel ids.
Callers == {"h1", "h2"}
Channels == {"c1", "c2"}
\* Non-empty completions the summarizer may return.
Texts == {"t1"}
\* Sizes of the event log (all of channel c1, never summarized) at start-up.
Backlogs == {maxContexts - 1, MaxBacklog}

VARIABLES
    contexts,     \* table contexts: sequence of rows [id, channel_id], in insertion order
    summaries,    \* table summaries: sequence of rows [id, channel_id, summary_text, context_ids]
    cpc,          \* per handler goroutine: where it is in UpdateMemory / GetMemorySummary
    creq,         \* per handler goroutine: the channel id of the call in progress
    got,          \* per handler goroutine: the MemorySummary its last call returned (zero at a new call)
    issued,       \* number of calls issued so far
    wpc,          \* memoryLoop's position
    req,          \* memoryLoop's current request: [ChannelID, ReplyChan]
    summary,      \* memoryLoop: the value it is about to send on req.ReplyChan
    lastSummary,  \* updateSummary's local lastSummary
    contextIDs,   \* updateSummary's local contextIDs
    calls,        \* summarizer calls made for the current request
    last,         \* what the worker's last step did for the current request (history)
    written,      \* every snapshot saved so far, as updateSummary built it (history)
    arrivals      \* the appends memoryLoop received, in order: [channel, id], id 0 while
                  \* not stored (history)

\* The recall actor (recall.go) and the vector index it queries.
VARIABLES
    index,        \* the Qdrant collection forum_posts: a set of payloads [post_id, user]
    apiKey,       \* whether OPENAI_API_KEY is set in the environment
    rcpc,         \* per handler goroutine: where it is in RecallRelevantPosts
    rcreq,        \* per handler goroutine: the characterName of the call in progress
    rgot,         \* per handler goroutine: the posts its last RecallRelevantPosts returned
    rissued,      \* number of RecallRelevantPosts calls issued so far
    rwpc,         \* recallLoop's position
    rreq,         \* recallLoop's current request: [CharacterName, ReplyChan]
    queryVec,     \* runRecall's queryVec, by its length (0: none)
    recalled,     \* recallLoop's recalled
    rerr,         \* recallLoop's err, the error runRecall returned ("nil": none)
    replies,      \* per handler goroutine: replies sent on the replyChan of its call (history)
    queried       \* lengths of the vectors the index was queried with (history)

\* The memory actor's variables, the recall actor's, and all of them.
mvars == <<contexts, summaries, cpc, creq, got, issued, wpc, req, summary,
           lastSummary, contextIDs, calls, last, written, arrivals>>

rvars == <<index, apiKey, rcpc, rcreq, rgot, rissued, rwpc, rreq, queryVec,
           recalled, rerr, replies, queried>>

\* The vector collection as EnsureQdrantCollection (batches.go) finds and leaves it.
VARIABLES
    collection,   \* the vector size the collection forum_posts was created with (0: absent)
    ensured       \* the calls of EnsureQdrantCollection so far:
                  \* [size, before, after, created, err] (history)

evars == <<collection, ensured>>

\* One call of ChunkPosts (axis.go).
VARIABLES
    inPosts,      \* the argument posts: a sequence of [PostID, MessageLen]
    maxChars,     \* the argument maxChars
    chunks,       \* the local chunks
    current,      \* the local current
    currentLen,   \* the local currentLen
    scanned,      \* how many posts the range loop has taken
    kpc           \* "loop" in the range loop, "done" once chunks is returned

kvars == <<inPosts, maxChars, chunks, current, currentLen, scanned, kpc>>

\* One call of RunImmediateAxes (axis.go).
VARIABLES
    ipc,          \* the caller: "spawn" in the for loop, "wait" in wg.Wait, "returned"
    started,      \* how many axes of the slice the for loop has started
    wg,           \* the WaitGroup's counter
    apc,          \* per axis goroutine: "unstarted", "run" in ax.Run, "send", "deferred"
                  \* before wg.Done, "exited"; "panicked" when ax.Run panicked
    output,       \* per axis goroutine: the AxisOutput ax.Run returned
    resultsCh,    \* the buffered channel resultsCh, oldest first
    results,      \* what RunImmediateAxes returned
    ctxDone,      \* whether ctx is cancelled
    crashed       \* whether an unrecovered panic has ended the process

avars == <<ipc, started, wg, apc, output, resultsCh, results, ctxDone, crashed>>

\* The background processor (axis.go), its producer and its consumer.
VARIABLES
    InputStream,  \* bp.InputStream, oldest first: the numbers of the inputs pushed
    OutputStream, \* bp.OutputStream, oldest first: outputs [Axis, Input]
    outClosed,    \* whether bp.OutputStream is closed
    bpc,          \* the worker goroutine of Start: "select", "spawn" and "wait" in
                  \* runAxes, "exited"
    binput,       \* runAxes' input (0: none)
    bstarted,     \* how many axes runAxes' for loop has started
    bwg,          \* runAxes' WaitGroup counter
    bapc,         \* per axis goroutine of runAxes, as apc
    bctxDone,     \* whether the processor's ctx is cancelled
    bcrashed,     \* whether an unrecovered panic has ended the process
    pushed,       \* how many inputs the producer has pushed
    published,    \* per input and axis: outputs sent to bp.OutputStream (history of
                  \* the first MaxInputs inputs)
    taken,        \* the inputs the worker has received, in order (history)
    consumed,     \* how many outputs the consumer has read
    sawEnd,       \* whether the consumer's range loop has ended
    accepted,     \* how many inputs had been pushed when ctx was cancelled (history)
    bpAxes        \* bp.Axes, in slice order

bvars == <<InputStream, OutputStream, outClosed, bpc, binput, bstarted, bwg, bapc,
           bctxDone, bcrashed, pushed, published, taken, consumed, sawEnd, accepted,
           bpAxes>>

\* The variables of the components that are neither actor.
\* FindUserConversations (timeline.go).
VARIABLES
    forum,         \* table forum_posts, in rowid order: rows [user, thread_path, timestamp];
                   \* a row's post id is its position
    username,      \* the user whose conversations are asked for
    userPosts,     \* GetUserPosts' result: post ids in ascending timestamp order
    scannedPosts,  \* how many of userPosts the for loop has been through
    conversations, \* the Conversations appended so far
    ferr,          \* the error returned: "nil" or "error"
    fpc            \* "idle", "call", "loop", "done"

tvars == <<forum, username, userPosts, scannedPosts, conversations, ferr, fpc>>

\* The chat handlers, messageCreate (discord.go).
VARIABLES
    hpc,      \* per handler: "idle", "update" (in UpdateMemory), "commands" (between
              \* UpdateMemory and GetMemorySummary), "fetch" (in GetMemorySummary)
    hchan,    \* per handler: m.ChannelID of the message it handles
    posted,   \* per handler: the place of its message among the appends the worker has
              \* received (history; 0: none)
    attempts  \* how many INSERTs and how many refreshes the worker has been through
              \* (history)

hvars == <<hpc, hchan, posted, attempts>>

ovars == <<evars, kvars, avars, bvars, tvars, hvars>>

vars == <<contexts, summaries, cpc, creq, got, issued, wpc, req, summary,
          lastSummary, contextIDs, calls, last, written, arrivals, rvars, ovars>>

\* ----------------------------------------------------------- Go values
\* MemorySummary{} : the zero value (Time is not modelled).
ZeroSummary == [SummaryText |-> "", ContextIDs |-> <<>>]

\* A request with no reply channel / no request at all.
NoChan == "nil"
NoReq == [ChannelID |-> "", ReplyChan |-> NoChan]
\* History record: nothing done since the current request was received.
NoLast == [op |-> "none", outcome |-> "", channel |-> "", prior |-> ZeroSummary,
           fetched |-> <<>>]

\* json.Marshal of an []int64: a nil slice encodes as null, any other as an array.
jsonMarshal(ids) ==
    IF ids = <<>> THEN [tok |-> "null", elems |-> <<>>]
    ELSE [tok |-> "array", elems |-> ids]

\* Mutant: the stored context_ids never decode.
jsonUnmarshal_Fails(j) == <<>>

\* json.Unmarshal into a nil []int64 (its error is ignored by getLatestSummary).
jsonUnmarshal(j) ==
    IF j.tok = "array" THEN j.elems ELSE <<>>

\* -------------------------------------------------------------- SQL
\* Both tables are kept in insertion order, which is ascending id order.
RECURSIVE MaxID(_, _, _)
\* The largest id among rows lo..hi of a table (0 for none).
MaxID(table, lo, hi) ==
    IF lo > hi THEN 0
    ELSE IF lo = hi THEN table[lo].id
    ELSE LET mid == (lo + hi) \div 2
             a == MaxID(table, lo, mid)
             b == MaxID(table, mid + 1, hi)
         IN IF a > b THEN a ELSE b

\* Mutant: the greatest id is used again.
NextID_Reuse(table) == MaxID(table, 1, Len(table))

\* INTEGER PRIMARY KEY AUTOINCREMENT: one more than the largest id of the table
\* (no row is ever deleted, so that is the largest id ever used).
NextID(table) == MaxID(table, 1, Len(table)) + 1

RECURSIVE SelectIDs(_, _, _, _, _)
\* WHERE channel_id = ? AND id > ? over rows lo..hi: the ids of the matching rows,
\* in the order of the rows.
SelectIDs(table, lo, hi, channelID, lastSeenID) ==
    IF lo > hi THEN <<>>
    ELSE IF lo = hi
         THEN IF table[lo].channel_id = channelID /\ table[lo].id > lastSeenID
              THEN <<table[lo].id>> ELSE <<>>
    ELSE LET mid == (lo + hi) \div 2
         IN SelectIDs(table, lo, mid, channelID, lastSeenID)
            \o SelectIDs(table, mid + 1, hi, channelID, lastSeenID)

\* Mutant: DESC order, the newest `limit` ids instead of the oldest.
Limit_Newest(ids, limit) ==
    IF Len(ids) > limit THEN SubSeq(ids, Len(ids) - limit + 1, Len(ids)) ELSE ids

\* LIMIT ?: the first `limit` elements.
Limit(ids, limit) ==
    IF Len(ids) > limit THEN SubSeq(ids, 1, limit) ELSE ids

\* Mutant: WHERE id >= ? in place of id > ?.
QueryContexts_Inclusive(table, channelID, lastSeenID, limit) ==
    Limit(SelectIDs(table, 1, Len(table), channelID, lastSeenID - 1), limit)

RECURSIVE SelectAllIDs(_, _, _, _)
\* Mutant: WHERE id > ? over rows lo..hi, whatever their channel.
SelectAllIDs(table, lo, hi, lastSeenID) ==
    IF lo > hi THEN <<>>
    ELSE IF lo = hi
         THEN IF table[lo].id > lastSeenID THEN <<table[lo].id>> ELSE <<>>
    ELSE LET mid == (lo + hi) \div 2
         IN SelectAllIDs(table, lo, mid, lastSeenID)
            \o SelectAllIDs(table, mid + 1, hi, lastSeenID)

\* Mutant: the query without its channel_id condition.
QueryContexts_AnyChannel(table, channelID, lastSeenID, limit) ==
    Limit(SelectAllIDs(table, 1, Len(table), lastSeenID), limit)

\* SELECT id ... FROM contexts WHERE channel_id = ? AND id > ? ORDER BY id ASC LIMIT ?
\* followed by the rows.Next() loop collecting the ids.
QueryContexts(table, channelID, lastSeenID, limit) ==
    Limit(SelectIDs(table, 1, Len(table), channelID, lastSeenID), limit)

\* INSERT INTO contexts (...) VALUES (...)
InsertContext(table, channelID) ==
    Append(table, [id |-> NextID(table), channel_id |-> channelID])

\* INSERT INTO summaries (channel_id, summary_text, context_ids, time) VALUES (...)
InsertSummary(table, channelID, text, idsJSON) ==
    Append(table, [id |-> NextID(table), channel_id |-> channelID,
                   summary_text |-> text, context_ids |-> idsJSON])

\* Mutant: ORDER BY id ASC, the oldest summary of the channel.
getLatestSummary_Oldest(table, channelID, dbOk) ==
    LET mine == {i \in DOMAIN table : table[i].channel_id = channelID}
    IN IF ~dbOk THEN [summary |-> ZeroSummary, err |-> "error"]
       ELSE IF mine = {} THEN [summary |-> ZeroSummary, err |-> "ErrNoRows"]
       ELSE LET row == table[CHOOSE i \in mine : \A j \in mine : table[j].id >= table[i].id]
            IN [summary |-> [SummaryText |-> row.summary_text,
                             ContextIDs |-> jsonUnmarshal(row.context_ids)],
                err |-> "nil"]

\* getLatestSummary: SELECT ... WHERE channel_id = ? ORDER BY id DESC LIMIT 1, Scan,
\* Unmarshal.  dbOk = FALSE is a failing query; no row is sql.ErrNoRows.
getLatestSummary(table, channelID, dbOk) ==
    LET mine == {i \in DOMAIN table : table[i].channel_id = channelID}
    IN IF ~dbOk THEN [summary |-> ZeroSummary, err |-> "error"]
       ELSE IF mine = {} THEN [summary |-> ZeroSummary, err |-> "ErrNoRows"]
       ELSE LET row == table[CHOOSE i \in mine : \A j \in mine : table[j].id <= table[i].id]
            IN [summary |-> [SummaryText |-> row.summary_text,
                             ContextIDs |-> jsonUnmarshal(row.context_ids)],
                err |-> "nil"]

\* Mutant: the first covered id in place of the last.
LastSeenID_First(s) ==
    IF Len(s.ContextIDs) > 0 THEN s.ContextIDs[1] ELSE 0

\* updateSummary lines 122-125: the id the next fetch starts after.
LastSeenID(s) ==
    IF Len(s.ContextIDs) > 0 THEN s.ContextIDs[Len(s.ContextIDs)] ELSE 0

\* Mutant: only the new ids, the previous summary's ids forgotten.
CombinedIDs_OnlyNew(prev, new) == new

\* Mutant: the new ids put in front of the previous summary's.
CombinedIDs_NewFirst(prev, new) == new \o prev

\* updateSummary lines 206-207: the previous summary's ids followed by the new ones.
CombinedIDs(prev, new) == prev \o new

\* ------------------------------------------------------------ start-up
\* StartMemory: the tables as data/memory.db holds them (a backlog of events of
\* channel c1 whose refreshes all failed), the worker at `for req := range ch`.
Backlog(n) == [i \in 1..n |-> [id |-> i, channel_id |-> "c1"]]

MemoryInit ==
    /\ \E n \in Backlogs : contexts = Backlog(n)
    /\ summaries = <<>>
    /\ cpc = [c \in Callers |-> "idle"]
    /\ creq = [c \in Callers |-> ""]
    /\ got = [c \in Callers |-> ZeroSummary]
    /\ issued = 0
    /\ wpc = "recv"
    /\ req = NoReq
    /\ summary = ZeroSummary
    /\ lastSummary = ZeroSummary
    /\ contextIDs = <<>>
    /\ calls = 0
    /\ last = NoLast
    /\ written = <<>>
    /\ arrivals = <<>>

\* ------------------------------------------------------------ handlers
\* UpdateMemory: the handler reaches `MemoryChan <- MemoryRequest{ReplyChan: nil}`.
CallUpdateMemory(c, ch) ==
    /\ cpc[c] = "idle"
    /\ wpc # "crashed"
    /\ issued < MaxRequests
    /\ cpc' = [cpc EXCEPT ![c] = "sendUpdate"]
    /\ creq' = [creq EXCEPT ![c] = ch]
    /\ got' = [got EXCEPT ![c] = ZeroSummary]
    /\ issued' = issued + 1
    /\ UNCHANGED <<arrivals, written, contexts, summaries, wpc, req, summary, lastSummary,
                   contextIDs, calls, last>>

\* GetMemorySummary: the handler makes replyChan and reaches `MemoryChan <- ...`.
CallGetMemorySummary(c, ch) ==
    /\ cpc[c] = "idle"
    /\ wpc # "crashed"
    /\ issued < MaxRequests
    /\ cpc' = [cpc EXCEPT ![c] = "sendFetch"]
    /\ creq' = [creq EXCEPT ![c] = ch]
    /\ got' = [got EXCEPT ![c] = ZeroSummary]
    /\ issued' = issued + 1
    /\ UNCHANGED <<arrivals, written, contexts, summaries, wpc, req, summary, lastSummary,
                   contextIDs, calls, last>>

\* ------------------------------------------------------------ memoryLoop
\* Mutant: a send on MemoryChan completes wherever the worker is.
WorkerReceiving_Always == wpc # "crashed"

\* MemoryChan is unbuffered: a send completes only with the worker at its receive,
\* `for req := range ch`.
WorkerReceiving == wpc = "recv"

\* Mutant: UpdateMemory does not return when its request is received.
ReceiveUpdate_HoldsCaller(c) ==
    /\ wpc = "recv"
    /\ cpc[c] = "sendUpdate"
    /\ req' = [ChannelID |-> creq[c], ReplyChan |-> NoChan]
    /\ wpc' = "insert"
    /\ calls' = 0
    /\ arrivals' = Append(arrivals, [channel |-> creq[c], id |-> 0])
    /\ last' = NoLast
    /\ UNCHANGED <<written, contexts, summaries, cpc, creq, got, issued, summary,
                   lastSummary, contextIDs>>

\* The send of UpdateMemory meets the receive; UpdateMemory returns.
ReceiveUpdate(c) ==
    /\ WorkerReceiving
    /\ cpc[c] = "sendUpdate"
    /\ req' = [ChannelID |-> creq[c], ReplyChan |-> NoChan]
    /\ wpc' = "insert"
    /\ cpc' = [cpc EXCEPT ![c] = "idle"]
    /\ creq' = [creq EXCEPT ![c] = ""]
    /\ calls' = 0
    /\ arrivals' = Append(arrivals, [channel |-> creq[c], id |-> 0])
    /\ last' = NoLast
    /\ UNCHANGED <<written, contexts, summaries, got, issued, summary, lastSummary,
                   contextIDs>>

\* Mutant: a fetch is taken while the worker is still in updateSummary.
ReceiveFetch_MidRefresh(c) ==
    /\ wpc \in {"recv", "refresh"}
    /\ cpc[c] = "sendFetch"
    /\ req' = [ChannelID |-> creq[c], ReplyChan |-> c]
    /\ wpc' = "fetch"
    /\ cpc' = [cpc EXCEPT ![c] = "waitReply"]
    /\ calls' = 0
    /\ last' = NoLast
    /\ UNCHANGED <<arrivals, written, contexts, summaries, creq, got, issued, summary, lastSummary,
                   contextIDs>>

\* The send of GetMemorySummary meets the receive; the handler goes on to
\* `<-replyChan`.
ReceiveFetch(c) ==
    /\ WorkerReceiving
    /\ cpc[c] = "sendFetch"
    /\ req' = [ChannelID |-> creq[c], ReplyChan |-> c]
    /\ wpc' = "fetch"
    /\ cpc' = [cpc EXCEPT ![c] = "waitReply"]
    /\ calls' = 0
    /\ last' = NoLast
    /\ UNCHANGED <<arrivals, written, contexts, summaries, creq, got, issued, summary, lastSummary,
                   contextIDs>>

\* Mutant: a fetch that goes on to refresh the channel's summary.
Fetch_Refreshes ==
    /\ wpc = "fetch"
    /\ \E dbOk \in BOOLEAN :
         LET r == getLatestSummary(summaries, req.ChannelID, dbOk)
         IN /\ summary' = IF r.err # "nil" THEN ZeroSummary ELSE r.summary
            /\ last' = [NoLast EXCEPT !.op = "fetch", !.outcome = r.err,
                                      !.channel = req.ChannelID]
    /\ wpc' = "refresh"
    /\ UNCHANGED <<arrivals, written, contexts, summaries, cpc, creq, got, issued, req, lastSummary,
                   contextIDs, calls>>

\* req.ReplyChan != nil: getLatestSummary, then reach the send on ReplyChan with the
\* summary, or with MemorySummary{} on any error.
Fetch ==
    /\ wpc = "fetch"
    /\ \E dbOk \in BOOLEAN :
         LET r == getLatestSummary(summaries, req.ChannelID, dbOk)
         IN /\ summary' = IF r.err # "nil" THEN ZeroSummary ELSE r.summary
            /\ last' = [NoLast EXCEPT !.op = "fetch", !.outcome = r.err,
                                      !.channel = req.ChannelID]
    /\ wpc' = "reply"
    /\ UNCHANGED <<arrivals, written, contexts, summaries, cpc, creq, got, issued, req, lastSummary,
                   contextIDs, calls>>

\* `req.ReplyChan <- summary` meets the handler's `<-replyChan`; `continue`.
Reply ==
    /\ wpc = "reply"
    /\ cpc[req.ReplyChan] = "waitReply"
    /\ got' = [got EXCEPT ![req.ReplyChan] = summary]
    /\ cpc' = [cpc EXCEPT ![req.ReplyChan] = "idle"]
    /\ creq' = [creq EXCEPT ![req.ReplyChan] = ""]
    /\ wpc' = "recv"
    /\ req' = NoReq
    /\ summary' = ZeroSummary
    /\ UNCHANGED <<arrivals, written, contexts, summaries, issued, lastSummary, contextIDs,
                   calls, last>>

\* "Always insert new context": the INSERT; its error is logged and the loop goes on
\* to updateSummary either way.
Insert ==
    /\ wpc = "insert"
    /\ \E dbOk \in BOOLEAN :
         /\ contexts' = IF dbOk THEN InsertContext(contexts, req.ChannelID) ELSE contexts
         /\ arrivals' = IF dbOk THEN [arrivals EXCEPT ![Len(arrivals)].id = NextID(contexts)]
                              ELSE arrivals
         /\ last' = [NoLast EXCEPT !.op = "insert",
                                   !.outcome = IF dbOk THEN "inserted" ELSE "db_error",
                                   !.channel = req.ChannelID]
    /\ wpc' = "refresh"
    /\ UNCHANGED <<written, summaries, cpc, creq, got, issued, req, summary, lastSummary,
                   contextIDs, calls>>

\* memoryLoop line 103: updateSummary's return value is an error for these outcomes
\* (logged, `continue`) and nil for "nothing_new" and "saved".
ReturnsError(outcome) ==
    outcome \in {"lookup_error", "query_error", "openai_error", "empty_summary",
                 "insert_error"}

\* The worker is back at `for req := range ch` after updateSummary returned.
Finish(outcome, prior, fetched) ==
    /\ wpc' = "recv"
    /\ req' = NoReq
    /\ lastSummary' = ZeroSummary
    /\ contextIDs' = <<>>
    /\ last' = [op |-> "refresh", outcome |-> outcome, channel |-> req.ChannelID,
                prior |-> prior, fetched |-> fetched]

\* updateSummary, lines 116-120: getLatestSummary fails with an error other than
\* sql.ErrNoRows; return err.
RefreshLookupFails ==
    /\ wpc = "refresh"
    /\ getLatestSummary(summaries, req.ChannelID, FALSE).err \notin {"nil", "ErrNoRows"}
    /\ Finish("lookup_error", ZeroSummary, <<>>)
    /\ UNCHANGED <<arrivals, written, contexts, summaries, cpc, creq, got, issued, summary, calls>>

\* updateSummary, lines 130-160: the query, a Scan or rows.Err() fails; return err.
RefreshQueryFails ==
    /\ wpc = "refresh"
    /\ LET r == getLatestSummary(summaries, req.ChannelID, TRUE)
       IN Finish("query_error", r.summary, <<>>)
    /\ UNCHANGED <<arrivals, written, contexts, summaries, cpc, creq, got, issued, summary, calls>>

\* Mutant: only the newest event not yet covered is fetched.
NewContextIDs_NewestOnly(s, channelID) ==
    LET ids == QueryContexts(contexts, channelID, LastSeenID(s), MaxBacklog + MaxRequests)
    IN IF ids = <<>> THEN <<>> ELSE <<ids[Len(ids)]>>

\* The ids updateSummary fetches after a summary s: lines 122-136.
NewContextIDs(s, channelID) ==
    QueryContexts(contexts, channelID, LastSeenID(s), maxContexts)

\* updateSummary, lines 163-166: no new context; return nil.
RefreshNothingNew ==
    /\ wpc = "refresh"
    /\ LET r == getLatestSummary(summaries, req.ChannelID, TRUE)
       IN /\ Len(NewContextIDs(r.summary, req.ChannelID)) = 0
          /\ Finish("nothing_new", r.summary, <<>>)
    /\ UNCHANGED <<arrivals, written, contexts, summaries, cpc, creq, got, issued, summary, calls>>

\* Mutant: the summarizer is called without the len(contexts) == 0 check.
RefreshCallsSummarizer_NoGuard ==
    /\ wpc = "refresh"
    /\ LET r == getLatestSummary(summaries, req.ChannelID, TRUE)
       IN /\ lastSummary' = r.summary
          /\ contextIDs' = NewContextIDs(r.summary, req.ChannelID)
    /\ wpc' = "openai"
    /\ calls' = calls + 1
    /\ UNCHANGED <<arrivals, written, contexts, summaries, cpc, creq, got, issued, req, summary, last>>

\* updateSummary, lines 168-193: at least one new context; the prompt is built and
\* client.CreateChatCompletion is called.  The worker waits for the answer.
RefreshCallsSummarizer ==
    /\ wpc = "refresh"
    /\ LET r == getLatestSummary(summaries, req.ChannelID, TRUE)
           ids == NewContextIDs(r.summary, req.ChannelID)
       IN /\ Len(ids) # 0
          /\ lastSummary' = r.summary
          /\ contextIDs' = ids
    /\ wpc' = "openai"
    /\ calls' = calls + 1
    /\ UNCHANGED <<arrivals, written, contexts, summaries, cpc, creq, got, issued, req, summary, last>>

\* Mutant: the call is made again after an error.
SummarizerError_Retry ==
    /\ wpc = "openai"
    /\ calls < 3
    /\ calls' = calls + 1
    /\ UNCHANGED <<arrivals, written, contexts, summaries, cpc, creq, got, issued, wpc, req, summary,
                   lastSummary, contextIDs, last>>

\* CreateChatCompletion returns an error: lines 194-197, return.
SummarizerError ==
    /\ wpc = "openai"
    /\ Finish("openai_error", lastSummary, contextIDs)
    /\ UNCHANGED <<arrivals, written, contexts, summaries, cpc, creq, got, issued, summary, calls>>

\* CreateChatCompletion returns a response with no choice: resp.Choices[0] on
\* line 198 is out of range, the goroutine panics and the process dies.
SummarizerNoChoices ==
    /\ wpc = "openai"
    /\ wpc' = "crashed"
    /\ last' = [op |-> "refresh", outcome |-> "panic", channel |-> req.ChannelID,
                prior |-> lastSummary, fetched |-> contextIDs]
    /\ UNCHANGED <<arrivals, written, contexts, summaries, cpc, creq, got, issued, req, summary,
                   lastSummary, contextIDs, calls>>

\* Mutant: the empty summary is saved like any other.
SummarizerEmpty_Saves ==
    /\ wpc = "openai"
    /\ summaries' = InsertSummary(summaries, req.ChannelID, "",
                                  jsonMarshal(lastSummary.ContextIDs \o contextIDs))
    /\ written' = Append(written, [channel |-> req.ChannelID, text |-> "",
                                   prior |-> lastSummary.ContextIDs,
                                   fetched |-> contextIDs])
    /\ Finish("saved", lastSummary, contextIDs)
    /\ UNCHANGED <<arrivals, contexts, cpc, creq, got, issued, summary, calls>>

\* The completion's content is "": lines 199-202, return an error, nothing saved.
SummarizerEmpty ==
    /\ wpc = "openai"
    /\ Finish("empty_summary", lastSummary, contextIDs)
    /\ UNCHANGED <<arrivals, written, contexts, summaries, cpc, creq, got, issued, summary, calls>>

\* Lines 205-216: the row updateSummary inserts for a non-empty summary.
SaveSummary(text) ==
    InsertSummary(summaries, req.ChannelID, text,
                  jsonMarshal(CombinedIDs(lastSummary.ContextIDs, contextIDs)))

\* A non-empty completion: lines 203-223, the combined ids are marshalled and the
\* new summary row is inserted, unless the INSERT fails.
SummarizerText ==
    /\ wpc = "openai"
    /\ \E text \in Texts, dbOk \in BOOLEAN :
         /\ summaries' = IF dbOk THEN SaveSummary(text) ELSE summaries
         /\ written' = IF dbOk
                        THEN Append(written, [channel |-> req.ChannelID, text |-> text,
                                              prior |-> lastSummary.ContextIDs,
                                              fetched |-> contextIDs])
                        ELSE written
         /\ Finish(IF dbOk THEN "saved" ELSE "insert_error", lastSummary, contextIDs)
    /\ UNCHANGED <<arrivals, contexts, cpc, creq, got, issued, summary, calls>>

\* ============================================================ recall.go
\* Calls to RecallRelevantPosts the handlers issue in a run.
MaxRecalls == 3
\* Most posts one character has in the index.
MaxPosts == 6

\* const topK = 5 in runRecall.
topK == 5
\* vectorSize, the size the collection is created with.
vectorSize == 3072

\* Characters whose posts are recalled; the index holds no post of sora.
Owners == {"naoki", "mira", "sora"}
\* Lengths of the vector CreateEmbeddings may return: text-embedding-3-large's, or
\* another model's.
EmbeddingDims == {vectorSize, vectorSize \div 2}

\* A recall request with no reply channel: no request.
NoRecallReq == [CharacterName |-> "", ReplyChan |-> NoChan]

\* The payloads of n posts of a character, post ids from `first`.
Posts(user, first, n) == {[post_id |-> first + i, user |-> user] : i \in 0..(n - 1)}

\* StartRecall: the index as the offline ingestion left it, the worker at
\* `for req := range ch`.
RecallInit ==
    /\ \E n \in 0..MaxPosts : index = Posts("naoki", 1, n) \cup Posts("mira", 101, 2)
    /\ apiKey \in BOOLEAN
    /\ rcpc = [c \in Callers |-> "idle"]
    /\ rcreq = [c \in Callers |-> ""]
    /\ rgot = [c \in Callers |-> <<>>]
    /\ rissued = 0
    /\ rwpc = "recv"
    /\ rreq = NoRecallReq
    /\ queryVec = 0
    /\ recalled = <<>>
    /\ rerr = "nil"
    /\ replies = [c \in Callers |-> 0]
    /\ queried = {}

\* The recall worker started on an empty index, and no handler calling it.
RecallIdle ==
    /\ index = {}
    /\ apiKey = TRUE
    /\ rcpc = [c \in Callers |-> "idle"]
    /\ rcreq = [c \in Callers |-> ""]
    /\ rgot = [c \in Callers |-> <<>>]
    /\ rissued = 0
    /\ rwpc = "recv"
    /\ rreq = NoRecallReq
    /\ queryVec = 0
    /\ recalled = <<>>
    /\ rerr = "nil"
    /\ replies = [c \in Callers |-> 0]
    /\ queried = {}

\* RecallRelevantPosts: the handler makes replyChan and reaches `RecallChan <- ...`.
CallRecall(c, owner) ==
    /\ rcpc[c] = "idle"
    /\ rissued < MaxRecalls
    /\ rcpc' = [rcpc EXCEPT ![c] = "send"]
    /\ rcreq' = [rcreq EXCEPT ![c] = owner]
    /\ rgot' = [rgot EXCEPT ![c] = <<>>]
    /\ replies' = [replies EXCEPT ![c] = 0]
    /\ rissued' = rissued + 1
    /\ UNCHANGED <<index, apiKey, rwpc, rreq, queryVec, recalled, rerr, queried>>

\* Mutant: the send is taken wherever the worker is.
RecallReceive_Anywhere(c) ==
    /\ rcpc[c] = "send"
    /\ rreq' = [CharacterName |-> rcreq[c], ReplyChan |-> c]
    /\ rcpc' = [rcpc EXCEPT ![c] = "waitReply"]
    /\ rwpc' = "run"
    /\ UNCHANGED <<index, apiKey, rcreq, rgot, rissued, queryVec, recalled, rerr,
                   replies, queried>>

\* RecallChan is unbuffered: the send meets recallLoop's `for req := range ch`; the
\* handler goes on to `<-replyChan`.
RecallReceive(c) ==
    /\ rwpc = "recv"
    /\ rcpc[c] = "send"
    /\ rreq' = [CharacterName |-> rcreq[c], ReplyChan |-> c]
    /\ rcpc' = [rcpc EXCEPT ![c] = "waitReply"]
    /\ rwpc' = "run"
    /\ UNCHANGED <<index, apiKey, rcreq, rgot, rissued, queryVec, recalled, rerr,
                   replies, queried>>

\* runRecall returns (posts, err): recallLoop reaches its send on req.ReplyChan.
Return(posts, err) ==
    /\ recalled' = posts
    /\ rerr' = err
    /\ rwpc' = "reply"

\* runRecall, lines 68-71: OPENAI_API_KEY is not set.
RunRecallNoKey ==
    /\ rwpc = "run"
    /\ ~apiKey
    /\ Return(<<>>, "OPENAI_API_KEY not set")
    /\ UNCHANGED <<index, apiKey, rcpc, rcreq, rgot, rissued, rreq, queryVec,
                   replies, queried>>

\* runRecall, lines 72-78: CreateEmbeddings is called; the worker waits.
RunRecallEmbeds ==
    /\ rwpc = "run"
    /\ apiKey
    /\ rwpc' = "embed"
    /\ UNCHANGED <<index, apiKey, rcpc, rcreq, rgot, rissued, rreq, queryVec,
                   recalled, rerr, replies, queried>>

\* Mutant: on the error the worker goes back to its receive without a reply.
EmbedError_NoReply ==
    /\ rwpc = "embed"
    /\ rwpc' = "recv"
    /\ rreq' = NoRecallReq
    /\ rerr' = "embedding request failed"
    /\ UNCHANGED <<index, apiKey, rcpc, rcreq, rgot, rissued, queryVec, recalled,
                   replies, queried>>

\* CreateEmbeddings returns an error: lines 79-81.
EmbedError ==
    /\ rwpc = "embed"
    /\ Return(<<>>, "embedding request failed")
    /\ UNCHANGED <<index, apiKey, rcpc, rcreq, rgot, rissued, rreq, queryVec,
                   replies, queried>>

\* CreateEmbeddings returns no embedding: lines 82-84.
EmbedNoData ==
    /\ rwpc = "embed"
    /\ Return(<<>>, "no embedding returned")
    /\ UNCHANGED <<index, apiKey, rcpc, rcreq, rgot, rissued, rreq, queryVec,
                   replies, queried>>

\* CreateEmbeddings returns a vector: lines 85-102, qdrantClient.Query is called with
\* it, whatever its length; the worker waits.
EmbedOk ==
    /\ rwpc = "embed"
    /\ \E dim \in EmbeddingDims :
         /\ queryVec' = dim
         /\ queried' = queried \cup {dim}
    /\ rwpc' = "query"
    /\ UNCHANGED <<index, apiKey, rcpc, rcreq, rgot, rissued, rreq, recalled, rerr,
                   replies>>

\* qdrantClient.Query returns an error (the index is unreachable, or it rejects a
\* vector that has not the collection's size): lines 103-105.
QueryError ==
    /\ rwpc = "query"
    /\ queryVec' = 0
    /\ Return(<<>>, "qdrant query error")
    /\ UNCHANGED <<index, apiKey, rcpc, rcreq, rgot, rissued, rreq, replies, queried>>

\* The sequence of a set of payloads, by ascending post id.
ByPostID(S) ==
    [k \in 1..Cardinality(S) |->
        CHOOSE x \in S : Cardinality({y \in S : y.post_id < x.post_id}) = k - 1]

\* Mutant: the query carries no filter.
QdrantQuery_NoFilter(points, user, limit) ==
    LET n == IF Cardinality(points) > limit THEN limit ELSE Cardinality(points)
    IN {ByPostID(S) : S \in {T \in SUBSET points : Cardinality(T) = n}}

\* The answers the index may give to QueryPoints{Filter: Must user = ..., Limit}: the
\* `limit` best-scoring points among those matching the filter (all of them when
\* there are fewer); which ones score best is the index's business.
QdrantQuery(points, user, limit) ==
    LET matching == {p \in points : p.user = user}
        n == IF Cardinality(matching) > limit THEN limit ELSE Cardinality(matching)
    IN {ByPostID(S) : S \in {T \in SUBSET matching : Cardinality(T) = n}}

\* Lines 107-119: a PostToEmbed from each point's payload.
PostsOf(result) ==
    [i \in 1..Len(result) |-> [PostID |-> result[i].post_id, User |-> result[i].user]]

\* Mutant: the answered query is kept in the index as a record of the character.
QueryOk_Upserts ==
    /\ rwpc = "query"
    /\ queryVec = vectorSize
    /\ \E result \in QdrantQuery(index, rreq.CharacterName, topK) :
         Return(PostsOf(result), "nil")
    /\ queryVec' = 0
    /\ index' = index \cup {[post_id |-> 0, user |-> rreq.CharacterName]}
    /\ UNCHANGED <<apiKey, rcpc, rcreq, rgot, rissued, rreq, replies, queried>>

\* qdrantClient.Query answers: lines 107-120.  The index answers a query only for a
\* vector of the collection's size; any other it rejects (QueryError).
QueryOk ==
    /\ rwpc = "query"
    /\ queryVec = vectorSize
    /\ \E result \in QdrantQuery(index, rreq.CharacterName, topK) :
         Return(PostsOf(result), "nil")
    /\ queryVec' = 0
    /\ UNCHANGED <<index, apiKey, rcpc, rcreq, rgot, rissued, rreq, replies, queried>>

\* Mutant: the error is handed to the caller, as a post.
ResultFor_Error(posts, err) ==
    IF err # "nil" THEN <<[PostID |-> 0, User |-> err]>> ELSE posts

\* recallLoop, lines 57-62: the RecallResult it sends, nil posts on an error.
ResultFor(posts, err) == IF err # "nil" THEN <<>> ELSE posts

\* `req.ReplyChan <- RecallResult{...}` meets the handler's `<-replyChan`;
\* RecallRelevantPosts returns result.RecalledPosts.
RecallReply ==
    /\ rwpc = "reply"
    /\ rcpc[rreq.ReplyChan] = "waitReply"
    /\ rgot' = [rgot EXCEPT ![rreq.ReplyChan] = ResultFor(recalled, rerr)]
    /\ replies' = [replies EXCEPT ![rreq.ReplyChan] = @ + 1]
    /\ rcpc' = [rcpc EXCEPT ![rreq.ReplyChan] = "idle"]
    /\ rwpc' = "recv"
    /\ rreq' = NoRecallReq
    /\ recalled' = <<>>
    /\ UNCHANGED <<index, apiKey, rcreq, rissued, queryVec, rerr, queried>>

\* ============================================================ batches.go
\* Calls of EnsureQdrantCollection in a run.
MaxEnsures == 3

\* The vector sizes a collection is created with: text-embedding-3-large's, or
\* another model's.
IndexSizes == {vectorSize, vectorSize \div 2}

\* No collection of the name, or one of some size, and no call yet.
EnsureInit ==
    /\ collection \in {0} \cup IndexSizes
    /\ ensured = <<>>

\* EnsureQdrantCollection never called.
EnsureIdle ==
    /\ collection = 0
    /\ ensured = <<>>

\* EnsureQdrantCollection, lines 527-529: `return nil`, whatever CreateCollection
\* returned; its error is only logged.
EnsureReturns(createErr) == "nil"

\* What one call of EnsureQdrantCollection leaves behind.
Ensured(size, after, createErr) ==
    /\ collection' = after
    /\ ensured' = Append(ensured, [size |-> size, before |-> collection, after |-> after,
                                   created |-> createErr, err |-> EnsureReturns(createErr)])

\* CreateCollection on a name that is free: the collection is created with the size.
EnsureCreates(size) ==
    /\ Len(ensured) < MaxEnsures
    /\ collection = 0
    /\ Ensured(size, size, "nil")

\* CreateCollection on a name that is taken: Qdrant answers "already exists", whatever
\* the size of the existing collection, and leaves it as it is.
EnsureExists(size) ==
    /\ Len(ensured) < MaxEnsures
    /\ collection # 0
    /\ Ensured(size, collection, "already exists")

\* CreateCollection does not reach Qdrant.
EnsureUnreachable(size) ==
    /\ Len(ensured) < MaxEnsures
    /\ Ensured(size, collection, "unavailable")

\* ============================================================ axis.go: ChunkPosts
\* Longest input of ChunkPosts.
MaxChunkInput == 4

\* The 64 characters ChunkPosts counts for a post on top of its message.
overhead == 64

\* Message lengths and budgets: an empty message, r2 and r1 of the scenario, a longer
\* one; a budget below any post, r1's cost, the scenario's, r1's and r2's cost together.
MessageLens == {0, 300, 600, 900}
Budgets == {1, 664, 800, 1028}

\* The inputs of length n: posts numbered by their place, of any of the lengths.
PostSeqs(n) ==
    {[i \in 1..n |-> [PostID |-> i, MessageLen |-> f[i]]] : f \in [1..n -> MessageLens]}

\* ChunkPosts is entered: lines 251-253.
ChunkInit ==
    /\ \E n \in 0..MaxChunkInput : inPosts \in PostSeqs(n)
    /\ maxChars \in Budgets
    /\ chunks = <<>>
    /\ current = <<>>
    /\ currentLen = 0
    /\ scanned = 0
    /\ kpc = "loop"

\* ChunkPosts never called.
ChunkIdle ==
    /\ inPosts = <<>>
    /\ maxChars = 1
    /\ chunks = <<>>
    /\ current = <<>>
    /\ currentLen = 0
    /\ scanned = 0
    /\ kpc = "done"

\* Mutant: the 64 characters are not counted in the test.
Exceeds_NoOverhead(curLen, msgLen, budget) == curLen + msgLen > budget

\* Line 256: `currentLen+msgLen+64 > maxChars`.
Exceeds(curLen, msgLen, budget) == curLen + msgLen + overhead > budget

\* Mutant: a chunk that is over the budget already is left open.
ClosesChunk_SmallOnly(curLen, cur, msgLen, budget) ==
    Exceeds(curLen, msgLen, budget) /\ Len(cur) > 0 /\ curLen <= budget

\* Line 256: `currentLen+msgLen+64 > maxChars && len(current) > 0`.
ClosesChunk(curLen, cur, msgLen, budget) ==
    Exceeds(curLen, msgLen, budget) /\ Len(cur) > 0

\* Mutant: the closed chunk takes the place of the chunks before it.
Closed_Replaces(all, cur) == <<cur>>

\* Lines 257-259: what `chunks = append(chunks, current)` makes of chunks.
Closed(all, cur) == Append(all, cur)

\* Mutant: currentLen is not set back to 0 when a chunk is closed.
ChunkNextPost_KeepsLen ==
    /\ kpc = "loop"
    /\ scanned < Len(inPosts)
    /\ LET post == inPosts[scanned + 1]
           msgLen == post.MessageLen
           closes == ClosesChunk(currentLen, current, msgLen, maxChars)
       IN /\ chunks' = IF closes THEN Closed(chunks, current) ELSE chunks
          /\ current' = Append(IF closes THEN <<>> ELSE current, post)
          /\ currentLen' = currentLen + msgLen + overhead
    /\ scanned' = scanned + 1
    /\ UNCHANGED <<inPosts, maxChars, kpc>>

\* One turn of the range loop, lines 254-263.
ChunkNextPost ==
    /\ kpc = "loop"
    /\ scanned < Len(inPosts)
    /\ LET post == inPosts[scanned + 1]
           msgLen == post.MessageLen
           closes == ClosesChunk(currentLen, current, msgLen, maxChars)
       IN /\ chunks' = IF closes THEN Closed(chunks, current) ELSE chunks
          /\ current' = Append(IF closes THEN <<>> ELSE current, post)
          /\ currentLen' = (IF closes THEN 0 ELSE currentLen) + msgLen + overhead
    /\ scanned' = scanned + 1
    /\ UNCHANGED <<inPosts, maxChars, kpc>>

\* Mutant: the open chunk is closed even when it is empty.
HasOpenChunk_Always(cur) == TRUE

\* Line 265: `len(current) > 0`.
HasOpenChunk(cur) == Len(cur) > 0

\* After the loop, lines 265-268: the open chunk is closed and chunks returned.
ChunkReturn ==
    /\ kpc = "loop"
    /\ scanned = Len(inPosts)
    /\ chunks' = IF HasOpenChunk(current) THEN Append(chunks, current) ELSE chunks
    /\ kpc' = "done"
    /\ UNCHANGED <<inPosts, maxChars, current, currentLen, scanned>>

\* ============================================================ axis.go: RunImmediateAxes
\* The argument axes, in slice order.
AxisOrder == <<"recall", "mood", "topic">>
Axes == {AxisOrder[i] : i \in DOMAIN AxisOrder}

\* The scores an axis gives.
Scores == {0, 1}

\* No AxisOutput yet.
NoOutput == [Axis |-> "", Score |-> 0, Reason |-> ""]

\* RunImmediateAxes is entered: lines 30-31.
ImmediateInit ==
    /\ ipc = "spawn"
    /\ started = 0
    /\ wg = 0
    /\ apc = [a \in Axes |-> "unstarted"]
    /\ output = [a \in Axes |-> NoOutput]
    /\ resultsCh = <<>>
    /\ results = <<>>
    /\ ctxDone = FALSE
    /\ crashed = FALSE

\* RunImmediateAxes never called.
ImmediateIdle ==
    /\ ipc = "returned"
    /\ started = 0
    /\ wg = 0
    /\ apc = [a \in Axes |-> "unstarted"]
    /\ output = [a \in Axes |-> NoOutput]
    /\ resultsCh = <<>>
    /\ results = <<>>
    /\ ctxDone = FALSE
    /\ crashed = FALSE

\* Lines 33-40: wg.Add(1) and `go func(ax Axis)` for the next axis of the slice; after
\* the last one the caller is in wg.Wait.
StartAxis ==
    /\ ~crashed
    /\ ipc = "spawn"
    /\ started < Len(AxisOrder)
    /\ wg' = wg + 1
    /\ apc' = [apc EXCEPT ![AxisOrder[started + 1]] = "run"]
    /\ started' = started + 1
    /\ ipc' = IF started + 1 = Len(AxisOrder) THEN "wait" ELSE "spawn"
    /\ UNCHANGED <<output, resultsCh, results, ctxDone, crashed>>

\* The caller's cancellation signal fires.
Cancel ==
    /\ ~crashed
    /\ ipc # "returned"
    /\ ~ctxDone
    /\ ctxDone' = TRUE
    /\ UNCHANGED <<ipc, started, wg, apc, output, resultsCh, results, crashed>>

\* Line 37: ax.Run returns an AxisOutput.
AxisReturns(a) ==
    /\ ~crashed
    /\ apc[a] = "run"
    /\ \E score \in Scores :
         output' = [output EXCEPT ![a] = [Axis |-> a, Score |-> score, Reason |-> "ok"]]
    /\ apc' = [apc EXCEPT ![a] = "send"]
    /\ UNCHANGED <<ipc, started, wg, resultsCh, results, ctxDone, crashed>>

\* Line 37: ax.Run panics.  Nothing recovers the panic: it ends the process.
AxisPanics(a) ==
    /\ ~crashed
    /\ apc[a] = "run"
    /\ apc' = [apc EXCEPT ![a] = "panicked"]
    /\ crashed' = TRUE
    /\ UNCHANGED <<ipc, started, wg, output, resultsCh, results, ctxDone>>

\* Line 38: `resultsCh <- output`; the buffer has room for every axis.
AxisSends(a) ==
    /\ ~crashed
    /\ apc[a] = "send"
    /\ Len(resultsCh) < Len(AxisOrder)
    /\ resultsCh' = Append(resultsCh, output[a])
    /\ apc' = [apc EXCEPT ![a] = "deferred"]
    /\ UNCHANGED <<ipc, started, wg, output, results, ctxDone, crashed>>

\* Line 35: the deferred wg.Done().
AxisDone(a) ==
    /\ ~crashed
    /\ apc[a] = "deferred"
    /\ wg' = wg - 1
    /\ apc' = [apc EXCEPT ![a] = "exited"]
    /\ UNCHANGED <<ipc, started, output, resultsCh, results, ctxDone, crashed>>

\* Mutant: wg.Wait() returns at once.
WaitOver_AtOnce == TRUE

\* Line 42: wg.Wait() returns when the counter is 0.
WaitOver == wg = 0

\* Lines 42-49: wg.Wait returns, resultsCh is closed and drained into results.
ImmediateReturns ==
    /\ ~crashed
    /\ ipc = "wait"
    /\ WaitOver
    /\ results' = resultsCh
    /\ resultsCh' = <<>>
    /\ ipc' = "returned"
    /\ UNCHANGED <<started, wg, apc, output, ctxDone, crashed>>

\* ============================================================ axis.go: BackgroundProcessor
\* Inputs the producer pushes in a run.
MaxInputs == 2

\* The capacities NewBackgroundProcessor gives the two channels.
inputCap == 10
outputCap == 100

\* The axes a processor can be given, in slice order (RunAxes itself passes an empty
\* slice, with which runAxes returns at once).
BackgroundOrder == <<"mood", "topic">>
BackgroundAxes == {BackgroundOrder[i] : i \in DOMAIN BackgroundOrder}

\* NewBackgroundProcessor(axes, interval) and Start: lines 59-70.
BackgroundStart(axes) ==
    /\ bpAxes = axes
    /\ InputStream = <<>>
    /\ OutputStream = <<>>
    /\ outClosed = FALSE
    /\ bpc = "select"
    /\ binput = 0
    /\ bstarted = 0
    /\ bwg = 0
    /\ bapc = [a \in BackgroundAxes |-> "unstarted"]
    /\ bctxDone = FALSE
    /\ bcrashed = FALSE
    /\ pushed = 0
    /\ published = [i \in 1..MaxInputs, a \in BackgroundAxes |-> 0]
    /\ taken = <<>>
    /\ consumed = 0
    /\ sawEnd = FALSE
    /\ accepted = 0

BackgroundInit == BackgroundStart(BackgroundOrder)

\* No background processor made.
BackgroundIdle ==
    /\ bpAxes = <<>>
    /\ InputStream = <<>>
    /\ OutputStream = <<>>
    /\ outClosed = FALSE
    /\ bpc = "exited"
    /\ binput = 0
    /\ bstarted = 0
    /\ bwg = 0
    /\ bapc = [a \in BackgroundAxes |-> "unstarted"]
    /\ bctxDone = FALSE
    /\ bcrashed = FALSE
    /\ pushed = 0
    /\ published = [i \in 1..MaxInputs, a \in BackgroundAxes |-> 0]
    /\ taken = <<>>
    /\ consumed = 0
    /\ sawEnd = FALSE
    /\ accepted = 0

\* A producer's `bp.InputStream <- input`, for a producer that pushes `limit` inputs:
\* it waits while the buffer is full.
Produce_Unbounded(limit) ==
    /\ ~bcrashed
    /\ pushed < limit
    /\ InputStream' = Append(InputStream, pushed + 1)
    /\ pushed' = pushed + 1
    /\ UNCHANGED <<OutputStream, outClosed, bpc, binput, bstarted, bwg, bapc, bctxDone,
                   bcrashed, published, taken, consumed, sawEnd, accepted, bpAxes>>

Produce(limit) ==
    /\ ~bcrashed
    /\ pushed < limit
    /\ Len(InputStream) < inputCap
    /\ InputStream' = Append(InputStream, pushed + 1)
    /\ pushed' = pushed + 1
    /\ UNCHANGED <<OutputStream, outClosed, bpc, binput, bstarted, bwg, bapc, bctxDone,
                   bcrashed, published, taken, consumed, sawEnd, accepted, bpAxes>>

Push == Produce(MaxInputs)

\* The processor's ctx is cancelled: the shutdown signal.
Shutdown ==
    /\ ~bcrashed
    /\ ~bctxDone
    /\ bctxDone' = TRUE
    /\ accepted' = pushed
    /\ UNCHANGED <<InputStream, OutputStream, outClosed, bpc, binput, bstarted, bwg, bapc,
                   bcrashed, pushed, published, taken, consumed, sawEnd, bpAxes>>

\* Start, lines 72-73: the select takes `input := <-bp.InputStream` and enters runAxes;
\* with no axis configured runAxes returns at once.
TakeInput ==
    /\ ~bcrashed
    /\ bpc = "select"
    /\ InputStream # <<>>
    /\ binput' = Head(InputStream)
    /\ InputStream' = Tail(InputStream)
    /\ taken' = Append(taken, Head(InputStream))
    /\ bstarted' = 0
    /\ bapc' = [a \in BackgroundAxes |-> "unstarted"]
    /\ bpc' = IF bpAxes = <<>> THEN "wait" ELSE "spawn"
    /\ UNCHANGED <<OutputStream, outClosed, bwg, bctxDone, bcrashed, pushed, published,
                   consumed, sawEnd, accepted, bpAxes>>

\* A worker that also notices the cancellation while it waits in runAxes.
CloseAndExit_MidRun ==
    /\ ~bcrashed
    /\ bpc \in {"select", "wait"}
    /\ bctxDone
    /\ outClosed' = TRUE
    /\ bpc' = "exited"
    /\ UNCHANGED <<InputStream, OutputStream, binput, bstarted, bwg, bapc, bctxDone,
                   bcrashed, pushed, published, taken, consumed, sawEnd, accepted, bpAxes>>

\* Start, lines 74-76: the select takes `<-ctx.Done()`: close(bp.OutputStream), return.
CloseAndExit ==
    /\ ~bcrashed
    /\ bpc = "select"
    /\ bctxDone
    /\ outClosed' = TRUE
    /\ bpc' = "exited"
    /\ UNCHANGED <<InputStream, OutputStream, binput, bstarted, bwg, bapc, bctxDone,
                   bcrashed, pushed, published, taken, consumed, sawEnd, accepted, bpAxes>>

\* Start, lines 77-78: the select takes `<-time.After(bp.Interval)`: nothing is done.
IntervalElapses ==
    /\ ~bcrashed
    /\ bpc = "select"
    /\ UNCHANGED bvars

\* runAxes, lines 87-93: wg.Add(1) and `go func(ax Axis)` for the next axis; after the
\* last one the worker is in wg.Wait.
BgStartAxis ==
    /\ ~bcrashed
    /\ bpc = "spawn"
    /\ bstarted < Len(bpAxes)
    /\ bwg' = bwg + 1
    /\ bapc' = [bapc EXCEPT ![bpAxes[bstarted + 1]] = "run"]
    /\ bstarted' = bstarted + 1
    /\ bpc' = IF bstarted + 1 = Len(bpAxes) THEN "wait" ELSE "spawn"
    /\ UNCHANGED <<InputStream, OutputStream, outClosed, binput, bctxDone, bcrashed,
                   pushed, published, taken, consumed, sawEnd, accepted, bpAxes>>

\* runAxes, line 91: ax.Run returns an AxisOutput.
BgAxisReturns(a) ==
    /\ ~bcrashed
    /\ bapc[a] = "run"
    /\ bapc' = [bapc EXCEPT ![a] = "send"]
    /\ UNCHANGED <<InputStream, OutputStream, outClosed, bpc, binput, bstarted, bwg,
                   bctxDone, bcrashed, pushed, published, taken, consumed, sawEnd, accepted, bpAxes>>

\* runAxes, line 91: ax.Run panics.  Nothing recovers the panic: it ends the process.
BgAxisPanics(a) ==
    /\ ~bcrashed
    /\ bapc[a] = "run"
    /\ bapc' = [bapc EXCEPT ![a] = "panicked"]
    /\ bcrashed' = TRUE
    /\ UNCHANGED <<InputStream, OutputStream, outClosed, bpc, binput, bstarted, bwg,
                   bctxDone, pushed, published, taken, consumed, sawEnd, accepted, bpAxes>>

\* runAxes, line 92: `bp.OutputStream <- output`; it waits while the buffer is full, and
\* a send on a closed channel panics.
BgAxisSends(a) ==
    /\ ~bcrashed
    /\ bapc[a] = "send"
    /\ IF outClosed
       THEN /\ bapc' = [bapc EXCEPT ![a] = "panicked"]
            /\ bcrashed' = TRUE
            /\ UNCHANGED <<OutputStream, published>>
       ELSE /\ Len(OutputStream) < outputCap
            /\ OutputStream' = Append(OutputStream, [Axis |-> a, Input |-> binput])
            /\ published' = IF binput <= MaxInputs
                            THEN [published EXCEPT ![binput, a] = @ + 1]
                            ELSE published
            /\ bapc' = [bapc EXCEPT ![a] = "deferred"]
            /\ UNCHANGED bcrashed
    /\ UNCHANGED <<InputStream, outClosed, bpc, binput, bstarted, bwg, bctxDone, pushed,
                   taken, consumed, sawEnd, accepted, bpAxes>>

\* runAxes, line 90: the deferred wg.Done().
BgAxisDone(a) ==
    /\ ~bcrashed
    /\ bapc[a] = "deferred"
    /\ bwg' = bwg - 1
    /\ bapc' = [bapc EXCEPT ![a] = "exited"]
    /\ UNCHANGED <<InputStream, OutputStream, outClosed, bpc, binput, bstarted, bctxDone,
                   bcrashed, pushed, published, taken, consumed, sawEnd, accepted, bpAxes>>

\* A wait that does not wait for the axes.
BgWaitOver_AtOnce == TRUE

\* runAxes, line 96: wg.Wait() returns when the counter is 0.
BgWaitOver == bwg = 0

\* runAxes returns: the worker is back at its select.
RunAxesReturns ==
    /\ ~bcrashed
    /\ bpc = "wait"
    /\ BgWaitOver
    /\ bpc' = "select"
    /\ binput' = 0
    /\ UNCHANGED <<InputStream, OutputStream, outClosed, bstarted, bwg, bapc, bctxDone,
                   bcrashed, pushed, published, taken, consumed, sawEnd, accepted, bpAxes>>

\* The consumer's `for output := range bp.OutputStream` takes an output.
Consume ==
    /\ ~bcrashed
    /\ OutputStream # <<>>
    /\ OutputStream' = Tail(OutputStream)
    /\ consumed' = consumed + 1
    /\ UNCHANGED <<InputStream, outClosed, bpc, binput, bstarted, bwg, bapc, bctxDone,
                   bcrashed, pushed, published, taken, sawEnd, accepted, bpAxes>>

\* The consumer's range loop ends: the channel is closed and empty.
ConsumerEnds ==
    /\ ~bcrashed
    /\ OutputStream = <<>>
    /\ outClosed
    /\ ~sawEnd
    /\ sawEnd' = TRUE
    /\ UNCHANGED <<InputStream, OutputStream, outClosed, bpc, binput, bstarted, bwg, bapc,
                   bctxDone, bcrashed, pushed, published, taken, consumed, accepted, bpAxes>>

\* ============================================================ timeline.go: FindUserConversations
\* Rows of forum_posts in a run.
MaxForum == 3

ForumUsers == {"u", "v"}
Threads == {"a", "b"}
\* Timestamps; main.go stores 0 for a post whose timestamp is missing or unparsable.
Times == {0, 1, 2}

\* `1<<63 - 1`, the greatest int64: it is only compared with, and stands here as the
\* greatest integer the checker has.
maxInt64 == 2147483647

ForumRows == [user : ForumUsers, thread_path : Threads, timestamp : Times]

Forums(n) == UNION {[1..k -> ForumRows] : k \in 0..n}

\* Whether the post ids in `ids` are in ascending timestamp order; rows of equal
\* timestamp come in any order (ORDER BY timestamp ASC).
ByTimestamp(table, ids) ==
    \A i, j \in DOMAIN ids : i < j => table[ids[i]].timestamp <= table[ids[j]].timestamp

\* The orders in which a query may return the rows `S`.
ResultOrders(table, S) ==
    {ids \in [1..Cardinality(S) -> S] :
        /\ \A i, j \in DOMAIN ids : i # j => ids[i] # ids[j]
        /\ ByTimestamp(table, ids)}

\* GetUserPosts: the rows `WHERE user = ?`.
GetUserPosts(table, name) == {p \in DOMAIN table : table[p].user = name}

\* A query whose upper limit is inclusive.
GetThreadPostsBetween_Inclusive(table, threadPath, start, end) ==
    IF end > 0 /\ end < maxInt64
    THEN {p \in DOMAIN table : /\ table[p].thread_path = threadPath
                                /\ table[p].timestamp >= start
                                /\ table[p].timestamp <= end}
    ELSE {p \in DOMAIN table : /\ table[p].thread_path = threadPath
                                /\ table[p].timestamp >= start}

\* GetThreadPostsBetween: the rows of the thread from `start` up to, not including,
\* `end`; with an `end` that is not positive or is the greatest int64, all from `start`.
GetThreadPostsBetween(table, threadPath, start, end) ==
    IF end > 0 /\ end < maxInt64
    THEN {p \in DOMAIN table : /\ table[p].thread_path = threadPath
                                /\ table[p].timestamp >= start
                                /\ table[p].timestamp < end}
    ELSE {p \in DOMAIN table : /\ table[p].thread_path = threadPath
                                /\ table[p].timestamp >= start}

TimelineInit ==
    /\ forum \in Forums(MaxForum)
    /\ username \in ForumUsers
    /\ userPosts = <<>>
    /\ scannedPosts = 0
    /\ conversations = <<>>
    /\ ferr = "nil"
    /\ fpc = "call"

\* FindUserConversations is not called.
TimelineIdle ==
    /\ forum = <<>>
    /\ username = "u"
    /\ userPosts = <<>>
    /\ scannedPosts = 0
    /\ conversations = <<>>
    /\ ferr = "nil"
    /\ fpc = "idle"

\* Lines 112-115: GetUserPosts fails.
UserPostsError ==
    /\ fpc = "call"
    /\ ferr' = "error"
    /\ fpc' = "done"
    /\ UNCHANGED <<forum, username, userPosts, scannedPosts, conversations>>

\* Lines 112-118: GetUserPosts returns the user's posts; with none of them the function
\* returns nil.
UserPostsRead ==
    /\ fpc = "call"
    /\ userPosts' \in ResultOrders(forum, GetUserPosts(forum, username))
    /\ fpc' = IF userPosts' = <<>> THEN "done" ELSE "loop"
    /\ UNCHANGED <<forum, username, scannedPosts, conversations, ferr>>

\* Lines 126-131: the end time for userPosts[i].
EndTime(table, ids, i) ==
    IF i + 1 <= Len(ids) /\ table[ids[i + 1]].thread_path # table[ids[i]].thread_path
    THEN table[ids[i + 1]].timestamp
    ELSE maxInt64

\* Lines 129-130: the `continue` for a post whose next post is in the same thread.
Skips(table, ids, i) ==
    i + 1 <= Len(ids) /\ table[ids[i + 1]].thread_path = table[ids[i]].thread_path

\* Lines 133-136: GetThreadPostsBetween fails in an iteration that does not skip.
ThreadPostsError ==
    /\ fpc = "loop"
    /\ scannedPosts < Len(userPosts)
    /\ ~Skips(forum, userPosts, scannedPosts + 1)
    /\ conversations' = <<>>
    /\ ferr' = "error"
    /\ fpc' = "done"
    /\ UNCHANGED <<forum, username, userPosts, scannedPosts>>

\* Lines 121-145: one iteration of the for loop.
NextUserPost ==
    /\ fpc = "loop"
    /\ scannedPosts < Len(userPosts)
    /\ LET i == scannedPosts + 1
           post == forum[userPosts[i]]
           endTime == EndTime(forum, userPosts, i)
           threadPosts ==
               GetThreadPostsBetween(forum, post.thread_path, post.timestamp, endTime)
       IN  conversations' =
               IF ~Skips(forum, userPosts, i) /\ threadPosts # {}
               THEN Append(conversations, [ThreadPath |-> post.thread_path,
                                            Start |-> post.timestamp,
                                            End |-> endTime,
                                            Posts |-> threadPosts])
               ELSE conversations
    /\ scannedPosts' = scannedPosts + 1
    /\ UNCHANGED <<forum, username, userPosts, ferr, fpc>>

\* Line 146: return conversations, nil.
ConversationsReturn ==
    /\ fpc = "loop"
    /\ scannedPosts = Len(userPosts)
    /\ fpc' = "done"
    /\ UNCHANGED <<forum, username, userPosts, scannedPosts, conversations, ferr>>

\* ============================================================ discord.go: messageCreate
\* No handler is running.
HandlersIdle ==
    /\ hpc = [c \in Callers |-> "idle"]
    /\ hchan = [c \in Callers |-> ""]
    /\ posted = [c \in Callers |-> 0]
    /\ attempts = [inserts |-> 0, refreshes |-> 0]

\* Line 64: a message of channel ch comes in and its handler calls UpdateMemory.
HandlerUpdates(c, ch) ==
    /\ hpc[c] = "idle"
    /\ CallUpdateMemory(c, ch)
    /\ hpc' = [hpc EXCEPT ![c] = "update"]
    /\ hchan' = [hchan EXCEPT ![c] = ch]
    /\ posted' = [posted EXCEPT ![c] = 0]
    /\ UNCHANGED attempts

\* UpdateMemory returns: its request has been received.
HandlerUpdated(c) ==
    /\ hpc[c] = "update"
    /\ ReceiveUpdate(c)
    /\ hpc' = [hpc EXCEPT ![c] = "commands"]
    /\ posted' = [posted EXCEPT ![c] = Len(arrivals')]
    /\ UNCHANGED <<hchan, attempts>>

\* Lines 66-203: the message is no command and no DM, or it is a command that is
\* answered without the chat: the handler returns.
HandlerReturns(c) ==
    /\ hpc[c] = "commands"
    /\ hpc' = [hpc EXCEPT ![c] = "idle"]
    /\ UNCHANGED <<mvars, hchan, posted, attempts>>

\* Line 206: the handler calls GetMemorySummary(m.ChannelID, username).
HandlerFetches(c) ==
    /\ hpc[c] = "commands"
    /\ CallGetMemorySummary(c, hchan[c])
    /\ hpc' = [hpc EXCEPT ![c] = "fetch"]
    /\ UNCHANGED <<hchan, posted, attempts>>

\* GetMemorySummary returns with the worker's reply; the handler goes on to its answer.
HandlerFetched ==
    /\ Reply
    /\ hpc' = [hpc EXCEPT ![req.ReplyChan] = "idle"]
    /\ UNCHANGED <<hchan, posted, attempts>>

\* ============================================================ specifications
\* The memory actor by itself.
\* The components that are neither actor, not used.
OthersIdle ==
    EnsureIdle /\ ChunkIdle /\ ImmediateIdle /\ BackgroundIdle /\ TimelineIdle /\ HandlersIdle

Init == MemoryInit /\ RecallIdle /\ OthersIdle

\* One step of the memory actor or of a handler calling it.
Next ==
    \/ \E c \in Callers, ch \in Channels : CallUpdateMemory(c, ch) /\ UNCHANGED <<rvars, ovars>>
    \/ \E c \in Callers, ch \in Channels : CallGetMemorySummary(c, ch) /\ UNCHANGED <<rvars, ovars>>
    \/ \E c \in Callers : ReceiveUpdate(c) /\ UNCHANGED <<rvars, ovars>>
    \/ \E c \in Callers : ReceiveFetch(c) /\ UNCHANGED <<rvars, ovars>>
    \/ Fetch /\ UNCHANGED <<rvars, ovars>>
    \/ Reply /\ UNCHANGED <<rvars, ovars>>
    \/ Insert /\ UNCHANGED <<rvars, ovars>>
    \/ RefreshLookupFails /\ UNCHANGED <<rvars, ovars>>
    \/ RefreshQueryFails /\ UNCHANGED <<rvars, ovars>>
    \/ RefreshNothingNew /\ UNCHANGED <<rvars, ovars>>
    \/ RefreshCallsSummarizer /\ UNCHANGED <<rvars, ovars>>
    \/ SummarizerError /\ UNCHANGED <<rvars, ovars>>
    \/ SummarizerNoChoices /\ UNCHANGED <<rvars, ovars>>
    \/ SummarizerEmpty /\ UNCHANGED <<rvars, ovars>>
    \/ SummarizerText /\ UNCHANGED <<rvars, ovars>>

Spec == Init /\ [][Next]_vars

\* The memory actor with fair scheduling: the worker takes its next step, every summarizer
\* call returns, and a handler blocked in its send on MemoryChan is served (the senders of
\* a Go channel wait in a queue).
SummarizerReturns ==
    SummarizerError \/ SummarizerNoChoices \/ SummarizerEmpty \/ SummarizerText

RefreshRuns ==
    \/ RefreshLookupFails
    \/ RefreshQueryFails
    \/ RefreshNothingNew
    \/ RefreshCallsSummarizer

MemoryFairness ==
    /\ WF_mvars(Fetch)
    /\ WF_mvars(Reply)
    /\ WF_mvars(Insert)
    /\ WF_mvars(RefreshRuns)
    /\ WF_mvars(SummarizerReturns)
    /\ \A c \in Callers : SF_mvars(ReceiveUpdate(c)) /\ SF_mvars(ReceiveFetch(c))

SpecMemoryLive == Init /\ [][Next]_vars /\ MemoryFairness

\* The memory worker started on an empty store, and no handler calling it.
MemoryIdle ==
    /\ contexts = <<>>
    /\ summaries = <<>>
    /\ cpc = [c \in Callers |-> "idle"]
    /\ creq = [c \in Callers |-> ""]
    /\ got = [c \in Callers |-> ZeroSummary]
    /\ issued = 0
    /\ wpc = "recv"
    /\ req = NoReq
    /\ summary = ZeroSummary
    /\ lastSummary = ZeroSummary
    /\ contextIDs = <<>>
    /\ calls = 0
    /\ last = NoLast
    /\ written = <<>>
    /\ arrivals = <<>>

\* The recall actor by itself.
InitRecall == MemoryIdle /\ RecallInit /\ OthersIdle

\* One step of the recall actor or of a handler calling it.
NextRecall ==
    \/ \E c \in Callers, owner \in Owners : CallRecall(c, owner) /\ UNCHANGED <<mvars, ovars>>
    \/ \E c \in Callers : RecallReceive(c) /\ UNCHANGED <<mvars, ovars>>
    \/ RunRecallNoKey /\ UNCHANGED <<mvars, ovars>>
    \/ RunRecallEmbeds /\ UNCHANGED <<mvars, ovars>>
    \/ EmbedError /\ UNCHANGED <<mvars, ovars>>
    \/ EmbedNoData /\ UNCHANGED <<mvars, ovars>>
    \/ EmbedOk /\ UNCHANGED <<mvars, ovars>>
    \/ QueryError /\ UNCHANGED <<mvars, ovars>>
    \/ QueryOk /\ UNCHANGED <<mvars, ovars>>
    \/ RecallReply /\ UNCHANGED <<mvars, ovars>>

SpecRecall == InitRecall /\ [][NextRecall]_vars

\* Calls the handlers issue in a run of both actors.
MaxCalls == 3

\* A handler goroutine is in one call at a time, and the run's calls are bounded.
OneCallEach ==
    /\ \A c \in Callers : cpc[c] = "idle" \/ rcpc[c] = "idle"
    /\ issued + rissued <= MaxCalls

\* Both actors, as main starts them: a short event log, a small index, the key set.
InitActors ==
    /\ MemoryInit
    /\ RecallInit
    /\ OthersIdle
    /\ Len(contexts) = maxContexts - 1
    /\ Cardinality(index) = 3
    /\ apiKey

\* One step of either actor or of a handler calling one of them; the panic of the
\* memory worker ends the process, the recall worker and the handlers with it.
NextActors ==
    \/ wpc # "crashed" /\ Next /\ OneCallEach'
    \/ wpc # "crashed" /\ NextRecall /\ OneCallEach'

SpecActors == InitActors /\ [][NextActors]_vars

\* EnsureQdrantCollection by itself, as LoadEmbeddings and reruns of it call it.
InitEnsure == MemoryIdle /\ RecallIdle /\ EnsureInit /\ ChunkIdle /\ ImmediateIdle /\ BackgroundIdle /\ TimelineIdle
    /\ HandlersIdle

NextEnsure ==
    \/ \E size \in IndexSizes : EnsureCreates(size) /\ UNCHANGED <<mvars, rvars, kvars, avars, bvars, tvars, hvars>>
    \/ \E size \in IndexSizes : EnsureExists(size) /\ UNCHANGED <<mvars, rvars, kvars, avars, bvars, tvars, hvars>>
    \/ \E size \in IndexSizes : EnsureUnreachable(size) /\ UNCHANGED <<mvars, rvars, kvars, avars, bvars, tvars, hvars>>

SpecEnsure == InitEnsure /\ [][NextEnsure]_vars

\* One call of ChunkPosts, on any input.
InitChunk == MemoryIdle /\ RecallIdle /\ EnsureIdle /\ ChunkInit /\ ImmediateIdle /\ BackgroundIdle /\ TimelineIdle
    /\ HandlersIdle

NextChunk ==
    \/ ChunkNextPost /\ UNCHANGED <<mvars, rvars, evars, avars, bvars, tvars, hvars>>
    \/ ChunkReturn /\ UNCHANGED <<mvars, rvars, evars, avars, bvars, tvars, hvars>>

SpecChunk == InitChunk /\ [][NextChunk]_vars

\* One call of RunImmediateAxes.
InitImmediate == MemoryIdle /\ RecallIdle /\ EnsureIdle /\ ChunkIdle /\ ImmediateInit /\ BackgroundIdle /\ TimelineIdle
    /\ HandlersIdle

NextImmediate ==
    \/ StartAxis /\ UNCHANGED <<mvars, rvars, evars, kvars, bvars, tvars, hvars>>
    \/ Cancel /\ UNCHANGED <<mvars, rvars, evars, kvars, bvars, tvars, hvars>>
    \/ \E a \in Axes : AxisReturns(a) /\ UNCHANGED <<mvars, rvars, evars, kvars, bvars, tvars, hvars>>
    \/ \E a \in Axes : AxisPanics(a) /\ UNCHANGED <<mvars, rvars, evars, kvars, bvars, tvars, hvars>>
    \/ \E a \in Axes : AxisSends(a) /\ UNCHANGED <<mvars, rvars, evars, kvars, bvars, tvars, hvars>>
    \/ \E a \in Axes : AxisDone(a) /\ UNCHANGED <<mvars, rvars, evars, kvars, bvars, tvars, hvars>>
    \/ ImmediateReturns /\ UNCHANGED <<mvars, rvars, evars, kvars, bvars, tvars, hvars>>

SpecImmediate == InitImmediate /\ [][NextImmediate]_vars

\* The background processor with a producer and a consumer.
InitBackground ==
    MemoryIdle /\ RecallIdle /\ EnsureIdle /\ ChunkIdle /\ ImmediateIdle /\ TimelineIdle
    /\ BackgroundInit
    /\ HandlersIdle

NextBackground ==
    \/ Push /\ UNCHANGED <<mvars, rvars, evars, kvars, avars, tvars, hvars>>
    \/ Shutdown /\ UNCHANGED <<mvars, rvars, evars, kvars, avars, tvars, hvars>>
    \/ TakeInput /\ UNCHANGED <<mvars, rvars, evars, kvars, avars, tvars, hvars>>
    \/ CloseAndExit /\ UNCHANGED <<mvars, rvars, evars, kvars, avars, tvars, hvars>>
    \/ IntervalElapses /\ UNCHANGED <<mvars, rvars, evars, kvars, avars, tvars, hvars>>
    \/ BgStartAxis /\ UNCHANGED <<mvars, rvars, evars, kvars, avars, tvars, hvars>>
    \/ \E a \in BackgroundAxes : BgAxisReturns(a) /\ UNCHANGED <<mvars, rvars, evars, kvars, avars, tvars, hvars>>
    \/ \E a \in BackgroundAxes : BgAxisPanics(a) /\ UNCHANGED <<mvars, rvars, evars, kvars, avars, tvars, hvars>>
    \/ \E a \in BackgroundAxes : BgAxisSends(a) /\ UNCHANGED <<mvars, rvars, evars, kvars, avars, tvars, hvars>>
    \/ \E a \in BackgroundAxes : BgAxisDone(a) /\ UNCHANGED <<mvars, rvars, evars, kvars, avars, tvars, hvars>>
    \/ RunAxesReturns /\ UNCHANGED <<mvars, rvars, evars, kvars, avars, tvars, hvars>>
    \/ Consume /\ UNCHANGED <<mvars, rvars, evars, kvars, avars, tvars, hvars>>
    \/ ConsumerEnds /\ UNCHANGED <<mvars, rvars, evars, kvars, avars, tvars, hvars>>

SpecBackground == InitBackground /\ [][NextBackground]_vars

\* The background processor with a producer that pushes more inputs than both buffers
\* hold, one axis, a consumer that reads only once the output buffer is full or closed, a
\* shutdown signal that comes no earlier than the first full buffer, and axis runs that all
\* return.  The worker and the axis goroutines
\* are scheduled fairly; Go's select takes a ready case at random, so a case that is ready
\* again and again is taken.  Nothing makes the producer or the consumer act.
MaxQueued == 112

OutputFull == Len(OutputStream) = outputCap

InitQueues ==
    /\ MemoryIdle /\ RecallIdle /\ EnsureIdle /\ ChunkIdle /\ ImmediateIdle /\ TimelineIdle
    /\ BackgroundStart(SubSeq(BackgroundOrder, 1, 1))
    /\ HandlersIdle

NextQueues ==
    \/ Produce(MaxQueued) /\ UNCHANGED <<mvars, rvars, evars, kvars, avars, tvars, hvars>>
    \/ OutputFull /\ Shutdown /\ UNCHANGED <<mvars, rvars, evars, kvars, avars, tvars, hvars>>
    \/ TakeInput /\ UNCHANGED <<mvars, rvars, evars, kvars, avars, tvars, hvars>>
    \/ CloseAndExit /\ UNCHANGED <<mvars, rvars, evars, kvars, avars, tvars, hvars>>
    \/ IntervalElapses /\ UNCHANGED <<mvars, rvars, evars, kvars, avars, tvars, hvars>>
    \/ BgStartAxis /\ UNCHANGED <<mvars, rvars, evars, kvars, avars, tvars, hvars>>
    \/ \E a \in BackgroundAxes : BgAxisReturns(a) /\ UNCHANGED <<mvars, rvars, evars, kvars, avars, tvars, hvars>>
    \/ \E a \in BackgroundAxes : BgAxisSends(a) /\ UNCHANGED <<mvars, rvars, evars, kvars, avars, tvars, hvars>>
    \/ \E a \in BackgroundAxes : BgAxisDone(a) /\ UNCHANGED <<mvars, rvars, evars, kvars, avars, tvars, hvars>>
    \/ RunAxesReturns /\ UNCHANGED <<mvars, rvars, evars, kvars, avars, tvars, hvars>>
    \/ (OutputFull \/ outClosed) /\ Consume /\ UNCHANGED <<mvars, rvars, evars, kvars, avars, tvars, hvars>>
    \/ ConsumerEnds /\ UNCHANGED <<mvars, rvars, evars, kvars, avars, tvars, hvars>>

WorkerFairness ==
    /\ WF_bvars(TakeInput)
    /\ SF_bvars(CloseAndExit)
    /\ WF_bvars(BgStartAxis)
    /\ WF_bvars(RunAxesReturns)
    /\ \A a \in BackgroundAxes :
           WF_bvars(BgAxisReturns(a)) /\ WF_bvars(BgAxisSends(a)) /\ WF_bvars(BgAxisDone(a))

SpecQueues == InitQueues /\ [][NextQueues]_vars /\ WorkerFairness

\* FindUserConversations over every small forum_posts table.
InitTimeline ==
    /\ MemoryIdle /\ RecallIdle /\ EnsureIdle /\ ChunkIdle /\ ImmediateIdle /\ BackgroundIdle
    /\ TimelineInit
    /\ HandlersIdle

NextTimeline ==
    \/ UserPostsError /\ UNCHANGED <<mvars, rvars, evars, kvars, avars, bvars, hvars>>
    \/ UserPostsRead /\ UNCHANGED <<mvars, rvars, evars, kvars, avars, bvars, hvars>>
    \/ ThreadPostsError /\ UNCHANGED <<mvars, rvars, evars, kvars, avars, bvars, hvars>>
    \/ NextUserPost /\ UNCHANGED <<mvars, rvars, evars, kvars, avars, bvars, hvars>>
    \/ ConversationsReturn /\ UNCHANGED <<mvars, rvars, evars, kvars, avars, bvars, hvars>>

SpecTimeline == InitTimeline /\ [][NextTimeline]_vars

\* The memory actor with the chat handlers: each handler calls UpdateMemory for its message
\* and then, unless it returns before, GetMemorySummary for the same channel; MaxHandled
\* calls are made in a run.
MaxHandled == 3

InitHandlers ==
    /\ MemoryInit /\ RecallIdle
    /\ Len(contexts) = maxContexts - 1
    /\ EnsureIdle /\ ChunkIdle /\ ImmediateIdle /\ BackgroundIdle /\ TimelineIdle
    /\ HandlersIdle

nonMemory == <<rvars, evars, kvars, avars, bvars, tvars>>

InsertDone == attempts' = [attempts EXCEPT !.inserts = @ + 1]
RefreshDone == attempts' = [attempts EXCEPT !.refreshes = @ + 1]

NextHandlers ==
    \/ \E c \in Callers, ch \in Channels :
          HandlerUpdates(c, ch) /\ issued < MaxHandled /\ UNCHANGED nonMemory
    \/ \E c \in Callers : HandlerUpdated(c) /\ UNCHANGED nonMemory
    \/ \E c \in Callers : HandlerReturns(c) /\ UNCHANGED nonMemory
    \/ \E c \in Callers : HandlerFetches(c) /\ issued < MaxHandled /\ UNCHANGED nonMemory
    \/ \E c \in Callers : ReceiveFetch(c) /\ UNCHANGED <<nonMemory, hvars>>
    \/ Fetch /\ UNCHANGED <<nonMemory, hvars>>
    \/ HandlerFetched /\ UNCHANGED nonMemory
    \/ Insert /\ InsertDone /\ UNCHANGED <<nonMemory, hpc, hchan, posted>>
    \/ RefreshLookupFails /\ RefreshDone /\ UNCHANGED <<nonMemory, hpc, hchan, posted>>
    \/ RefreshQueryFails /\ RefreshDone /\ UNCHANGED <<nonMemory, hpc, hchan, posted>>
    \/ RefreshNothingNew /\ RefreshDone /\ UNCHANGED <<nonMemory, hpc, hchan, posted>>
    \/ RefreshCallsSummarizer /\ UNCHANGED <<nonMemory, hvars>>
    \/ SummarizerError /\ RefreshDone /\ UNCHANGED <<nonMemory, hpc, hchan, posted>>
    \/ SummarizerNoChoices /\ UNCHANGED <<nonMemory, hvars>>
    \/ SummarizerEmpty /\ RefreshDone /\ UNCHANGED <<nonMemory, hpc, hchan, posted>>
    \/ SummarizerText /\ RefreshDone /\ UNCHANGED <<nonMemory, hpc, hchan, posted>>

SpecHandlers == InitHandlers /\ [][NextHandlers]_vars

\* ============================================================ properties
Range(s) == {s[i] : i \in DOMAIN s}

Ascending(s) == \A i \in 1..(Len(s) - 1) : s[i] < s[i + 1]

\* <<a, a+1, ..., b>>
Ids(a, b) == [i \in 1..(b - a + 1) |-> a + i - 1]

\* The positions of the summaries rows of a channel, and the one written last.
SnapshotsOf(ch) == {i \in DOMAIN summaries : summaries[i].channel_id = ch}

LatestSnapshot(ch) == CHOOSE i \in SnapshotsOf(ch) : \A j \in SnapshotsOf(ch) : j <= i

\* The covered ids a summaries row stores.
Covered(row) == row.context_ids.elems

\* The covered ids of a channel's latest snapshot (none without a snapshot), and its
\* high-water mark: the last covered id (0 without a snapshot).
LatestCovered(ch) ==
    IF SnapshotsOf(ch) = {} THEN <<>> ELSE Covered(summaries[LatestSnapshot(ch)])

HighWater(ids) == IF ids = <<>> THEN 0 ELSE ids[Len(ids)]

\* The ids of the events of a channel, and those above a high-water mark.
EventIDs(ch) == {contexts[i].id : i \in {j \in DOMAIN contexts : contexts[j].channel_id = ch}}

Unsummarized(ch) == {x \in EventIDs(ch) : x > HighWater(LatestCovered(ch))}

\* The n smallest elements of a set of ids.
Oldest(U, n) == {x \in U : Cardinality({y \in U : y < x}) < n}

\* A snapshot was written by this step.
SnapshotWritten == summaries' # summaries

\* C1: for every channel, over any interleaving of appends and refreshes with any
\* summarizer outcome, the high-water mark of a later snapshot is never below that of
\* an earlier one, and no event id is in the newly folded delta of two snapshots.
C1_MemoryMonotone ==
    /\ Len(written) = Len(summaries)
    /\ \A i, j \in DOMAIN summaries :
         (i < j /\ summaries[i].channel_id = summaries[j].channel_id) =>
            /\ HighWater(Covered(summaries[i])) <= HighWater(Covered(summaries[j]))
            /\ Range(written[i].fetched) \cap Range(written[j].fetched) = {}

\* Two snapshots of one channel exist and a later refresh failed at the summarizer.
C1_Witness ==
    /\ \E i, j \in DOMAIN summaries :
         i < j /\ summaries[i].channel_id = summaries[j].channel_id
    /\ last.op = "refresh" /\ last.outcome = "openai_error"

HoldsE120 == EventIDs("c1") = 1..120

C3_Step ==
    /\ (wpc = "refresh" /\ wpc' = "openai") =>
         LET U == Unsummarized(req.ChannelID)
         IN /\ Range(contextIDs') = Oldest(U, 50)
            /\ Ascending(contextIDs')
    /\ SnapshotWritten =>
         LET new == summaries'[Len(summaries')]
         IN /\ Covered(new) = LatestCovered(new.channel_id) \o contextIDs
            /\ (HoldsE120 /\ new.channel_id = "c1") =>
                 /\ LatestCovered("c1") = <<>> => Covered(new) = Ids(1, 50)
                 /\ LatestCovered("c1") = Ids(1, 50) => Covered(new) = Ids(1, 100)
                 /\ LatestCovered("c1") = Ids(1, 100) => Covered(new) = Ids(1, 120)
    /\ (wpc = "refresh" /\ Unsummarized(req.ChannelID) = {}) =>
         /\ wpc' # "openai"
         /\ summaries' = summaries

C4_Step ==
    /\ SnapshotWritten =>
         /\ Len(summaries') = Len(summaries) + 1
         /\ SubSeq(summaries', 1, Len(summaries)) = summaries
         /\ LET new == summaries'[Len(summaries')]
            IN /\ new.channel_id = req.ChannelID
               /\ new.summary_text # ""
               /\ Covered(new) = LatestCovered(req.ChannelID) \o contextIDs
               /\ Range(Covered(new)) = Range(LatestCovered(req.ChannelID)) \cup Range(contextIDs)
    /\ (wpc = "openai" /\ last'.outcome = "saved") => SnapshotWritten

\* C4: a successful refresh appends exactly one snapshot, of the request's channel,
\* covering the prior latest snapshot's ids followed by the newly fetched ids and
\* nothing else; every earlier snapshot is retained unmodified.
C4_SnapshotAppended == [][C4_Step]_vars

\* A second snapshot of a channel was saved on top of a first one.
C4_Witness ==
    /\ last.op = "refresh" /\ last.outcome = "saved"
    /\ last.prior.ContextIDs # <<>>
    /\ Len(summaries) >= 2

\* The snapshot of a channel saved last, as updateSummary built it before marshalling
\* (MemorySummary{} when none was saved).
WrittenOf(ch) == {i \in DOMAIN written : written[i].channel = ch}

LastWritten(ch) ==
    IF WrittenOf(ch) = {} THEN ZeroSummary
    ELSE LET w == written[CHOOSE i \in WrittenOf(ch) : \A j \in WrittenOf(ch) : j <= i]
         IN [SummaryText |-> w.text, ContextIDs |-> w.prior \o w.fetched]

\* The summaries row of a channel with the greatest id.
GreatestRow(ch) ==
    summaries[CHOOSE i \in SnapshotsOf(ch) :
                  \A j \in SnapshotsOf(ch) : summaries[j].id <= summaries[i].id]

C5_Step ==
    /\ (wpc = "refresh" /\ wpc' = "openai") =>
         LET hw == HighWater(LatestCovered(req.ChannelID))
         IN /\ Len(contextIDs') >= 1
            /\ Len(contextIDs') <= 50
            /\ Ascending(contextIDs')
            /\ Range(contextIDs') \subseteq {x \in EventIDs(req.ChannelID) : x > hw}
            /\ calls' = 1
    /\ (wpc = "refresh" /\ Unsummarized(req.ChannelID) = {}) =>
         /\ wpc' # "openai"
         /\ calls' = 0
         /\ summaries' = summaries
    /\ wpc' \in {"insert", "refresh"} => calls' = 0

C6_Step ==
    SummarizerEmpty =>
        /\ ReturnsError(last'.outcome)
        /\ summaries' = summaries
        /\ \A ch \in Channels :
             getLatestSummary(summaries', ch, TRUE) = getLatestSummary(summaries, ch, TRUE)

\* C6: when the summarizer returns an empty text the refresh returns an error and
\* writes no snapshot: the snapshots and every channel's latest summary are as before.
C6_EmptySummaryRejected == [][C6_Step]_vars

\* An empty summarizer answer left the earlier summary of the channel in place.
C6_Witness ==
    /\ last.op = "refresh" /\ last.outcome = "empty_summary"
    /\ last.prior.ContextIDs # <<>>
    /\ LatestCovered(last.channel) = last.prior.ContextIDs
    /\ Unsummarized(last.channel) # {}

C7_Step ==
    /\ SummarizerError =>
         /\ ReturnsError(last'.outcome)
         /\ summaries' = summaries
         /\ contexts' = contexts
         /\ wpc' = "recv"
         /\ \A ch \in Channels :
              getLatestSummary(summaries', ch, TRUE).summary = LastWritten(ch)
    /\ calls' <= 1

\* C7: when the summarizer call returns an error the refresh is aborted, no table
\* changes, the worker goes back to its receive without calling the summarizer again,
\* and the latest summary of every channel is the last snapshot saved before.
C7_SummarizerErrorAborts == [][C7_Step]_vars

\* A summarizer error left an earlier snapshot as the channel's latest summary.
C7_Witness ==
    /\ last.op = "refresh" /\ last.outcome = "openai_error"
    /\ wpc = "recv"
    /\ last.prior.ContextIDs # <<>>
    /\ getLatestSummary(summaries, last.channel, TRUE).summary = last.prior

C10_Step ==
    /\ (wpc = "fetch" /\ wpc' = "reply") =>
         IF last'.outcome = "error" \/ SnapshotsOf(req.ChannelID) = {}
         THEN summary' = ZeroSummary
         ELSE /\ summary' = LastWritten(req.ChannelID)
              /\ summary'.SummaryText = GreatestRow(req.ChannelID).summary_text
              /\ summary'.ContextIDs = Covered(GreatestRow(req.ChannelID))
    /\ (wpc = "reply" /\ wpc' = "recv") =>
         /\ cpc[req.ReplyChan] = "waitReply"
         /\ cpc'[req.ReplyChan] = "idle"
         /\ got'[req.ReplyChan] = summary

\* C10: GetMemorySummary returns the snapshot of the channel written last (the row
\* with the greatest id), and the zero value when the channel has no snapshot or the
\* lookup fails.
C10_LatestSummary == [][C10_Step]_vars

\* A handler got the newer of two snapshots of a channel.
C10_Witness ==
    \E c \in Callers, ch \in Channels :
        /\ Cardinality(SnapshotsOf(ch)) >= 2
        /\ cpc[c] = "idle"
        /\ got[c].ContextIDs # <<>>
        /\ got[c] = LastWritten(ch)

\* C8 as stated: a handler inside UpdateMemory can complete its send, and so return,
\* whatever the worker is doing, also during a summarizer call of an earlier request.
C8_AppendNeverWaits ==
    \A c \in Callers :
        (cpc[c] = "sendUpdate" /\ wpc = "openai") => ENABLED ReceiveUpdate(c)

C8_Step ==
    /\ (wpc = "recv" /\ wpc' = "insert") =>
         \E c \in Callers :
             /\ cpc[c] = "sendUpdate"
             /\ cpc'[c] = "idle"
             /\ req'.ChannelID = creq[c]
    /\ \A c \in Callers :
         (cpc[c] = "sendUpdate" /\ cpc'[c] = "idle") =>
             /\ wpc = "recv"
             /\ wpc' = "insert"
             /\ calls' = 0
             /\ contexts' = contexts
             /\ summaries' = summaries

\* C8 (amended): UpdateMemory returns in the step in which the worker receives its
\* request, before the insert and before any summarizer call for that request; the
\* send completes only with the worker at its receive, so the call waits while the
\* worker is busy with an earlier request, its summarizer call included.
C8_AppendReturnsAtReceive == [][C8_Step]_vars

\* The only call issued, an UpdateMemory, has returned and its summarizer call is
\* still in progress.
C8_Witness ==
    /\ issued = 1
    /\ \A c \in Callers : cpc[c] = "idle"
    /\ wpc = "openai"
    /\ calls = 1

\* C9 as stated: a handler inside GetMemorySummary can hand over its request
\* while a refresh is in progress on the worker.
C9_FetchNeverWaits ==
    \A c \in Callers :
        (cpc[c] = "sendFetch" /\ wpc \in {"refresh", "openai"}) => ENABLED ReceiveFetch(c)

C9_Step ==
    /\ \A c \in Callers :
         (cpc[c] = "sendFetch" /\ cpc'[c] # "sendFetch") =>
             /\ wpc = "recv"
             /\ wpc' = "fetch"
             /\ cpc'[c] = "waitReply"
             /\ req' = [ChannelID |-> creq[c], ReplyChan |-> c]
    /\ \A c \in Callers :
         (cpc[c] = "waitReply" /\ cpc'[c] # "waitReply") =>
             /\ wpc = "reply"
             /\ req.ReplyChan = c
             /\ calls = 0
             /\ cpc'[c] = "idle"
    /\ wpc \in {"fetch", "reply"} =>
         /\ wpc' \in {"fetch", "reply", "recv"}
         /\ calls' = 0
         /\ contexts' = contexts
         /\ summaries' = summaries

\* C9 (amended): GetMemorySummary is served by the memory worker: its request is
\* received only with the worker at its receive, so it waits for a refresh in
\* progress to finish; once received it is answered from one lookup, with no insert,
\* no refresh and no summarizer call.
C9_FetchServedByWorker == [][C9_Step]_vars

\* A handler is inside GetMemorySummary while the worker waits for the summarizer.
C9_Witness ==
    \E c \in Callers :
        /\ cpc[c] = "sendFetch"
        /\ wpc = "openai"
        /\ ~ ENABLED ReceiveFetch(c)

\* ------------------------------------------------------------------ C11
\* Whether table t still starts with all the rows of table s, unchanged.
Extends(t, s) == Len(t) >= Len(s) /\ SubSeq(t, 1, Len(s)) = s

\* C11: every successful Append stores exactly one new event, whose id is strictly
\* greater than the id of every event stored before; and no step of the memory worker
\* updates or deletes a stored event or snapshot: both tables only grow at the end,
\* the events only by the worker's INSERT.
C11_Step ==
    /\ Extends(contexts', contexts)
    /\ Extends(summaries', summaries)
    /\ (wpc = "insert" /\ last'.op = "insert" /\ last'.outcome = "inserted") =>
         /\ Len(contexts') = Len(contexts) + 1
         /\ contexts'[Len(contexts')].channel_id = req.ChannelID
         /\ \A i \in DOMAIN contexts : contexts[i].id < contexts'[Len(contexts')].id
    /\ ~(wpc = "insert" /\ wpc' = "refresh") => contexts' = contexts

C11_AppendOnly == [][C11_Step]_vars

\* Two events were appended after the backlog, the second one just now.
C11_Witness ==
    /\ last.op = "insert"
    /\ last.outcome = "inserted"
    /\ Len(contexts) = MaxBacklog + 2

\* ------------------------------------------------------------------ C12
\* The snapshot rows that cover event id x.
FoldedIn(x) == {i \in DOMAIN summaries : x \in Range(Covered(summaries[i]))}

\* C12: within one channel, events are folded in the order their appends were
\* received: of two stored events of a channel, the one received first has the
\* smaller id, and whenever a snapshot covers the later one, that snapshot or an
\* earlier one covers the earlier one.
C12_FoldedInArrivalOrder ==
    \A i \in DOMAIN arrivals : \A j \in DOMAIN arrivals :
        (/\ i < j
         /\ arrivals[i].channel = arrivals[j].channel
         /\ arrivals[i].id # 0
         /\ arrivals[j].id # 0) =>
            /\ arrivals[i].id < arrivals[j].id
            /\ \A t \in FoldedIn(arrivals[j].id) :
                 \E u \in FoldedIn(arrivals[i].id) : u <= t

\* Two appends of one channel were received and stored; the refresh after the first
\* failed, and the refresh after the second has folded both.
C12_Witness ==
    /\ Len(arrivals) >= 2
    /\ arrivals[1].channel = arrivals[2].channel
    /\ arrivals[1].id # 0
    /\ FoldedIn(arrivals[2].id) # {}
    /\ FoldedIn(arrivals[1].id) = FoldedIn(arrivals[2].id)

\* ------------------------------------------------------------------ C13
\* A refresh is in progress: updateSummary has started and has not returned.
Refreshing == wpc \in {"refresh", "openai"}

\* The saved snapshots whose newly folded batch holds event id x.
BatchesWith(x) == {i \in DOMAIN written : x \in Range(written[i].fetched)}

\* The event of an append is a row of the event log.
Stored(a) == \E i \in DOMAIN contexts : contexts[i] = [id |-> a.id, channel_id |-> a.channel]

\* The event of an append is above its channel's high-water mark.
Waiting(a) == a.id > HighWater(LatestCovered(a.channel))

\* A stored event is waiting above its channel's high-water mark, or was folded by
\* exactly one refresh, of its channel.
NotLost(a) ==
    /\ Stored(a)
    /\ \/ Waiting(a) /\ BatchesWith(a.id) = {}
       \/ /\ ~Waiting(a)
          /\ Cardinality(BatchesWith(a.id)) = 1
          /\ \A i \in BatchesWith(a.id) : written[i].channel = a.channel

\* C13: an append that arrives while a refresh is running is not received, and its
\* event not stored, before that refresh has returned, so the refresh's batch cannot
\* hold it; when its INSERT succeeds, its id is above every id any refresh has fetched
\* so far; and it stays above the high-water mark until exactly one later refresh of
\* its channel folds it: a refresh that saves a snapshot folds every waiting event of
\* the channel when at most maxContexts are waiting.
C13_Step ==
    /\ Refreshing =>
         /\ arrivals' = arrivals
         /\ contexts' = contexts
         /\ contextIDs' # <<>> => HighWater(contextIDs') <= contexts[Len(contexts)].id
    /\ (wpc = "insert" /\ Len(contexts') > Len(contexts)) =>
         /\ arrivals'[Len(arrivals')].id = contexts'[Len(contexts')].id
         /\ \A i \in DOMAIN written : \A x \in Range(written[i].fetched) :
              x < contexts'[Len(contexts')].id
    /\ (contexts' # contexts \/ summaries' # summaries) =>
         \A j \in DOMAIN arrivals' : arrivals'[j].id # 0 => NotLost(arrivals[j])'
    /\ (SnapshotWritten /\ Cardinality(Unsummarized(req.ChannelID)) <= maxContexts) =>
         \A j \in DOMAIN arrivals :
            (arrivals[j].channel = req.ChannelID /\ arrivals[j].id # 0) =>
                BatchesWith(arrivals[j].id)' # {}

C13_LateAppendFoldedOnce == [][C13_Step]_vars

\* The first append's refresh saved a snapshot without the second append's event,
\* and the refresh after the second append has just folded it.
C13_Witness ==
    /\ Len(arrivals) = 2
    /\ Len(written) = 2
    /\ arrivals[1].channel = arrivals[2].channel
    /\ BatchesWith(arrivals[1].id) = {1}
    /\ BatchesWith(arrivals[2].id) = {2}
    /\ last.op = "refresh" /\ last.outcome = "saved"

\* ------------------------------------------------------------------ C14
\* The handlers blocked on the reply of a memory fetch / of a recall.
AwaitingMemory == {c \in Callers : cpc[c] = "waitReply"}
AwaitingRecall == {c \in Callers : rcpc[c] = "waitReply"}

\* Each worker holds a request exactly while it is away from its receive, and the
\* only handler waiting for a reply is the one whose request the worker holds.
OneAtATime ==
    /\ (wpc = "recv") <=> (req = NoReq)
    /\ (rwpc = "recv") <=> (rreq = NoRecallReq)
    /\ AwaitingMemory \subseteq {req.ReplyChan}
    /\ AwaitingRecall \subseteq {rreq.ReplyChan}

\* C14: each store has one worker, which processes one request at a time: the memory
\* worker takes a request (an append with its refresh, or a fetch) only at its
\* receive, when the request before is finished, its summarizer call included, and
\* so does the recall worker, its embedding call and index query included; under
\* concurrent callers each worker holds at most one request at any moment.
C14_Step ==
    /\ (req' # req /\ req' # NoReq) =>
         /\ wpc = "recv"
         /\ req = NoReq
         /\ wpc' \in {"insert", "fetch"}
    /\ (rreq' # rreq /\ rreq' # NoRecallReq) =>
         /\ rwpc = "recv"
         /\ rreq = NoRecallReq
         /\ rwpc' = "run"
    /\ OneAtATime'

C14_OneRequestAtATime == [][C14_Step]_vars

\* Both workers are in their external calls, and a second memory request waits in
\* its send.
C14_Witness ==
    /\ wpc = "openai"
    /\ rwpc \in {"embed", "query"}
    /\ \E c \in Callers : cpc[c] \in {"sendUpdate", "sendFetch"}

\* ------------------------------------------------------------------ C15
\* C15: whatever an external service answers (an error, an empty text, a response
\* with no completion or no embedding, a vector of the wrong size), neither the memory
\* worker nor the recall worker crashes: each stays in its loop, at its receive or on
\* its way back to it.
C15_WorkersNeverCrash ==
    /\ wpc \in {"recv", "insert", "refresh", "openai", "fetch", "reply"}
    /\ rwpc \in {"recv", "run", "embed", "query", "reply"}

\* ------------------------------------------------------------------ C16
\* runRecall failed: the embedding call or the index query returned an error.
RecallFailed == rerr \in {"embedding request failed", "qdrant query error"}

\* C16: when the embedding call or the index query of a recall fails, the worker
\* replies, and RecallRelevantPosts returns to its caller the empty list: the result
\* carries no post and nothing of the error.
C16_Step ==
    (rwpc = "reply" /\ rwpc' = "recv" /\ RecallFailed) =>
        /\ rgot'[rreq.ReplyChan] = <<>>
        /\ rcpc[rreq.ReplyChan] = "waitReply"
        /\ rcpc'[rreq.ReplyChan] = "idle"

C16_FailedRecallIsEmpty == [][C16_Step]_vars

\* A recall whose index query failed has returned, after one that returned posts.
C16_Witness ==
    /\ rwpc = "recv"
    /\ rerr = "qdrant query error"
    /\ \E c \in Callers : rgot[c] # <<>>
    /\ \E c \in Callers : rcpc[c] = "idle" /\ replies[c] = 1 /\ rgot[c] = <<>>

\* ------------------------------------------------------------------ C17
\* A handler waits for a reply only while the worker holds its request, unanswered;
\* it is back from a call only with exactly one reply; and whenever the worker is at
\* its send, the handler of the request is there to take it.
AnsweredOnce ==
    /\ \A c \in Callers :
         /\ replies[c] <= 1
         /\ rcpc[c] = "waitReply" => (rreq.ReplyChan = c /\ replies[c] = 0)
         /\ (rcpc[c] = "idle" /\ rcreq[c] # "") => replies[c] = 1
    /\ rwpc = "reply" => rcpc[rreq.ReplyChan] = "waitReply"

\* C17: every recall request the worker receives is answered exactly once, on its own
\* reply channel: the worker goes back to its receive only by sending one RecallResult
\* to the handler whose request it holds, whether runRecall succeeded or failed; no
\* reply is sent otherwise; and the posts a handler gets are those of the character
\* it asked for.
C17_Step ==
    /\ (rwpc # "recv" /\ rwpc' = "recv") =>
         /\ rwpc = "reply"
         /\ rreq.CharacterName = rcreq[rreq.ReplyChan]
         /\ replies' = [replies EXCEPT ![rreq.ReplyChan] = 1]
         /\ \A c \in Callers \ {rreq.ReplyChan} : rgot'[c] = rgot[c]
         /\ \A i \in DOMAIN rgot'[rreq.ReplyChan] :
              rgot'[rreq.ReplyChan][i].User = rcreq[rreq.ReplyChan]
    /\ ~(rwpc # "recv" /\ rwpc' = "recv") =>
         \A c \in Callers : replies'[c] = replies[c] \/ (rcpc'[c] = "send" /\ replies'[c] = 0)
    /\ AnsweredOnce'

C17_AnsweredExactlyOnce == [][C17_Step]_vars

\* Two handlers asked concurrently for different characters; each got one reply, the
\* first the posts of its character, the second an empty list after a failed query.
C17_Witness ==
    /\ rcreq["h1"] = "naoki" /\ rcreq["h2"] = "mira"
    /\ replies["h1"] = 1 /\ replies["h2"] = 1
    /\ rgot["h1"] # <<>> /\ rgot["h2"] = <<>>
    /\ rerr = "qdrant query error"

\* ------------------------------------------------------------------ C18
\* C18: when the embedding service returns a vector whose length is not the index's
\* configured size, the recall fails without querying the index: the index is only
\* ever queried with vectors of length vectorSize.
C18_NoMismatchedQuery == \A dim \in queried : dim = vectorSize

\* ------------------------------------------------------------------ C19
\* C19: a recall never writes to the vector index: no step of a recall, on the success
\* path or on any failure path, adds, replaces or removes a record, so the index holds
\* the same records after the recall as before it.
C19_Step == index' = index

C19_IndexUnchanged == [][C19_Step]_vars

\* A recall whose embedding call failed has returned, the index holding records.
C19_Witness ==
    /\ rwpc = "recv"
    /\ rerr = "embedding request failed"
    /\ \E c \in Callers : rcpc[c] = "idle" /\ replies[c] = 1
    /\ Cardinality(index) = MaxPosts + 2

\* ------------------------------------------------------------------ C20
\* The posts of a character in the index.
PostsIn(user) == {p \in index : p.user = user}

\* C20: a recall that succeeds returns at most topK = 5 records, each a record of the
\* index that belongs to the character asked for; when the index holds no record of
\* that character the answered query gives the empty list with no error, and the
\* handler gets what runRecall returned.
C20_Step ==
    /\ (rwpc = "query" /\ rwpc' = "reply" /\ rerr' = "nil") =>
         /\ queryVec = vectorSize
         /\ Len(recalled') <= topK
         /\ \A i \in DOMAIN recalled' :
              /\ recalled'[i].User = rreq.CharacterName
              /\ [post_id |-> recalled'[i].PostID, user |-> recalled'[i].User] \in index
         /\ PostsIn(rreq.CharacterName) = {} => recalled' = <<>>
    /\ (rwpc = "reply" /\ rwpc' = "recv" /\ rerr = "nil") =>
         rgot'[rreq.ReplyChan] = recalled
    /\ (rwpc = "query" /\ queryVec = vectorSize /\ PostsIn(rreq.CharacterName) = {}) =>
         QdrantQuery(index, rreq.CharacterName, topK) = {<<>>}

C20_AtMostTopKOfOwner == [][C20_Step]_vars

\* One handler got topK posts of a character that has more, and then another got the
\* empty list, with no error, for a character that has none.
C20_Witness ==
    /\ Cardinality(PostsIn("naoki")) > topK
    /\ \E c \in Callers : rcreq[c] = "naoki" /\ Len(rgot[c]) = topK
    /\ \E c \in Callers : rcreq[c] = "sora" /\ replies[c] = 1 /\ rgot[c] = <<>>
    /\ rwpc = "recv" /\ rerr = "nil"

\* ------------------------------------------------------------------ C21
\* C21: EnsureQdrantCollection is an idempotent create-if-absent: a call that finds the
\* collection with the size asked for succeeds and leaves it as it is, and a call that
\* finds a collection of the name with another size returns an error.
C21_EnsureIdempotentOrError ==
    \A i \in DOMAIN ensured :
        /\ ensured[i].before = ensured[i].size =>
             (ensured[i].err = "nil" /\ ensured[i].after = ensured[i].before)
        /\ (ensured[i].before # 0 /\ ensured[i].before # ensured[i].size) =>
             ensured[i].err # "nil"

\* ------------------------------------------------------------------ C22
\* The cost of a chunk: for each of its posts, the message length and 64 more.
RECURSIVE Cost(_)
Cost(chunk) ==
    IF chunk = <<>> THEN 0
    ELSE chunk[1].MessageLen + 64 + Cost(Tail(chunk))

\* ChunkPosts has returned.
Returned == kpc = "done"

\* C22: for every input and budget > 0, a returned chunk of two or more posts costs at
\* most maxChars; only a chunk of exactly one post may cost more.
C22_ChunkWithinBudget ==
    Returned =>
        \A c \in DOMAIN chunks : Len(chunks[c]) >= 2 => Cost(chunks[c]) <= maxChars

\* A chunk of three posts is within the budget, and another chunk holds one post that
\* alone costs more than the budget.
C22_Witness ==
    /\ Returned
    /\ \E c \in DOMAIN chunks : Len(chunks[c]) = 3 /\ Cost(chunks[c]) > maxChars - 64
    /\ \E c \in DOMAIN chunks : Len(chunks[c]) = 1 /\ Cost(chunks[c]) > maxChars

\* ------------------------------------------------------------------ C23
\* The chunks one after the other, as one sequence.
RECURSIVE Flatten(_)
Flatten(all) ==
    IF all = <<>> THEN <<>>
    ELSE all[1] \o Flatten(Tail(all))

\* C23: for every input and budget > 0, the returned chunks, concatenated in order, are
\* the input: every post once, none dropped, doubled, split or moved; and all through
\* the loop the closed chunks and the open one are the posts taken so far.
C23_ChunksReproduceInput ==
    /\ Flatten(chunks) \o (IF Returned THEN <<>> ELSE current) = SubSeq(inPosts, 1, scanned)
    /\ Returned => Flatten(chunks) = inPosts

\* Four posts were returned in three chunks.
C23_Witness ==
    /\ Returned
    /\ Len(inPosts) = MaxChunkInput
    /\ Len(chunks) = 3

\* ------------------------------------------------------------------ C24
\* C24: for every input and budget > 0, a post whose own cost is above the budget is
\* returned in a chunk of its own, whatever comes before and after it.
C24_OversizedAlone ==
    Returned =>
        \A c \in DOMAIN chunks : \A i \in DOMAIN chunks[c] :
            chunks[c][i].MessageLen + 64 > maxChars => Len(chunks[c]) = 1

\* An oversized post between two posts that fit was returned alone.
C24_Witness ==
    /\ Returned
    /\ Len(inPosts) >= 3
    /\ inPosts[1].MessageLen + 64 <= maxChars
    /\ inPosts[2].MessageLen + 64 > maxChars
    /\ inPosts[3].MessageLen + 64 <= maxChars
    /\ chunks[2] = <<inPosts[2]>>

\* ------------------------------------------------------------------ C25
\* C25: ChunkPosts returns no empty chunk, and for the empty input it returns no chunk.
C25_NoEmptyChunk ==
    /\ \A c \in DOMAIN chunks : chunks[c] # <<>>
    /\ (Returned /\ inPosts = <<>>) => chunks = <<>>

\* The empty input was chunked.
C25_Witness == Returned /\ inPosts = <<>> /\ scanned = 0 /\ chunks = <<>>

\* ------------------------------------------------------------------ C26
\* The scenario: r1 of 600 characters, r2 of 300, budget 800.
Scenario ==
    /\ inPosts = <<[PostID |-> 1, MessageLen |-> 600], [PostID |-> 2, MessageLen |-> 300]>>
    /\ maxChars = 800

\* C26: ChunkPosts is greedy with 64 characters counted per post: a post joins the open
\* chunk whenever the chunk's cost and the post's length and 64 together are at most
\* the budget, and a chunk is closed and a new one started only when they are above it;
\* so r1 of 600 characters and r2 of 300 with budget 800 come back as [[r1],[r2]].
C26_Step ==
    /\ (kpc = "loop" /\ scanned' = scanned + 1) =>
         LET post == inPosts[scanned + 1]
             total == Cost(current) + post.MessageLen + 64
         IN /\ total <= maxChars => (current' = Append(current, post) /\ chunks' = chunks)
            /\ chunks' # chunks =>
                 /\ total > maxChars
                 /\ chunks' = Append(chunks, current)
                 /\ current' = <<post>>
    /\ (Scenario /\ Returned)' => chunks' = <<<<inPosts[1]>>, <<inPosts[2]>>>>

C26_Greedy == [][C26_Step]_vars

\* The scenario's call has returned its two chunks.
C26_Witness == Scenario /\ Returned /\ Len(chunks) = 2

\* ------------------------------------------------------------------ C27
\* The places of results that hold the output of axis a.
ResultsOf(a) == {i \in DOMAIN results : results[i].Axis = a}

\* C27: when the call is not cancelled and every axis returns, RunImmediateAxes has
\* started every axis and returns only after all of them have finished, with exactly
\* one AxisOutput per axis, the one that axis returned, in any order.
C27_OneOutputPerAxis ==
    (ipc = "returned" /\ ~ctxDone) =>
        /\ \A a \in Axes : apc[a] = "exited"
        /\ Len(results) = Cardinality(Axes)
        /\ \A a \in Axes :
             /\ Cardinality(ResultsOf(a)) = 1
             /\ \A i \in ResultsOf(a) : results[i] = output[a]

\* The call has returned, uncancelled, the last axis of the slice first in the results.
C27_Witness ==
    /\ ipc = "returned"
    /\ ~ctxDone
    /\ results[1].Axis = AxisOrder[Len(AxisOrder)]
    /\ results[Len(results)].Axis = AxisOrder[1]

\* ------------------------------------------------------------------ C28
\* C28: once the caller's cancellation signal has fired, RunImmediateAxes does not
\* wait for the axes that are still running: the caller is never held in wg.Wait by an
\* unfinished axis after the cancellation.
C28_CancelDoesNotWait ==
    (ctxDone /\ ipc = "wait" /\ ~crashed) => WaitOver

\* ------------------------------------------------------------------ C29
\* C29: when an axis faults during RunImmediateAxes the framework catches the fault:
\* the process goes on, and the call returns an output for every axis, the faulting
\* axis's with score 0.
C29_FaultIsCaught ==
    /\ ~crashed
    /\ ipc = "returned" =>
         \A a \in Axes : apc[a] = "panicked" =>
            \E i \in DOMAIN results : results[i].Axis = a /\ results[i].Score = 0


\* The inputs whose run of the axes is over: every input taken before the current one,
\* and the current one once the worker is back at its select or has exited.
Finished ==
    {taken[k] : k \in {j \in DOMAIN taken : j < Len(taken) \/ bpc \in {"select", "exited"}}}

\* C30: for every input the background worker has received, each configured axis
\* publishes at most one output, no output is published for an input not received, and
\* when the worker is ready for the next input (or has received it) every axis has
\* published exactly one output for each earlier input.
C30_OneOutputPerAxisPerInput ==
    /\ \A i \in 1..MaxInputs : \A a \in BackgroundAxes :
           /\ published[i, a] <= 1
           /\ published[i, a] = 1 => \E k \in DOMAIN taken : taken[k] = i
    /\ \A i \in Finished : \A a \in BackgroundAxes : published[i, a] = 1

\* Two inputs were received one after the other and every axis published for both.
C30_Witness ==
    /\ Len(taken) = MaxInputs
    /\ bpc = "select"
    /\ \A i \in 1..MaxInputs : \A a \in BackgroundAxes : published[i, a] = 1

\* C31: when the output queue is closed, every input that was accepted into the input
\* queue before the shutdown signal has had one output per axis published.
\* The select of Start takes any ready case: with ctx cancelled and inputs still queued it
\* may close at once, and the queued inputs are never run.
C31_DrainsThenCloses ==
    outClosed =>
        \A i \in 1..accepted : \A a \in BackgroundAxes : published[i, a] = 1

\* C32: the input queue never holds more than 10 inputs and the output queue never more
\* than 100 outputs, and every input pushed is either still queued, in push order, or has
\* been taken by the worker: a push into a full queue waits, it is neither buffered
\* beyond the bound nor dropped.
C32_QueuesBounded ==
    /\ Len(InputStream) <= inputCap
    /\ Len(OutputStream) <= outputCap
    /\ Len(taken) + Len(InputStream) = pushed
    /\ \A k \in DOMAIN InputStream : InputStream[k] = Len(taken) + k
    /\ \A k \in DOMAIN taken : taken[k] = k

\* Both queues are full, an axis waits to publish and the producer has more to push.
C32_Witness ==
    /\ Len(InputStream) = inputCap
    /\ Len(OutputStream) = outputCap
    /\ pushed < MaxQueued
    /\ \E a \in BackgroundAxes : bapc[a] = "send"

\* C39: once the shutdown signal has fired and every axis run returns, the worker
\* eventually closes the output queue and exits, also when nothing reads the output queue.
\* With the output buffer full and no reader, the axis goroutine stays in its send,
\* wg.Wait never returns and the worker never comes back to its select.
C39_ShutdownTerminates == bctxDone ~> (bpc = "exited")

\* No axis goroutine of runAxes is running and none is being started.
Quiet ==
    /\ bpc = "exited"
    /\ bwg = 0
    /\ \A a \in BackgroundAxes : bapc[a] \notin {"run", "send", "deferred"}

C35_Step ==
    /\ (bpc = "select" /\ bpc' = "exited") => ~outClosed /\ outClosed'
    /\ outClosed' => Quiet'
    /\ outClosed => outClosed' /\ bapc' = bapc /\ bstarted' = bstarted
                    /\ \/ OutputStream' = OutputStream
                       \/ OutputStream # <<>> /\ OutputStream' = Tail(OutputStream)

\* C35: OutputStream is closed at most once, and only by the worker leaving its select at
\* a moment when no axis goroutine started by runAxes is still running; once it is closed
\* no axis is started and nothing is sent on it.
C35_ClosedOnceWhenQuiet == [][C35_Step]_vars

\* The output queue was closed after the axes of an input had run and published.
C35_Witness ==
    /\ outClosed
    /\ taken # <<>>
    /\ \A a \in BackgroundAxes : published[taken[1], a] = 1 /\ bapc[a] = "exited"

\* The user's next post after the i-th one is in the same thread.
NextInSameThread(i) ==
    i < Len(userPosts)
    /\ forum[userPosts[i + 1]].thread_path = forum[userPosts[i]].thread_path

\* The end of the i-th post's window: the next user post's timestamp, or max int64 for
\* the user's last post.
WindowEnd(i) ==
    IF i < Len(userPosts) THEN forum[userPosts[i + 1]].timestamp ELSE maxInt64

\* The posts of the i-th post's thread from its timestamp up to, not including, the
\* window's end.
InRange(i) ==
    {p \in DOMAIN forum : /\ forum[p].thread_path = forum[userPosts[i]].thread_path
                          /\ forum[p].timestamp >= forum[userPosts[i]].timestamp
                          /\ forum[p].timestamp < WindowEnd(i)}

\* The same, where an end that is not positive does not limit the range.
InRangeOrFrom(i) ==
    {p \in DOMAIN forum : /\ forum[p].thread_path = forum[userPosts[i]].thread_path
                          /\ forum[p].timestamp >= forum[userPosts[i]].timestamp
                          /\ WindowEnd(i) > 0 => forum[p].timestamp < WindowEnd(i)}

WindowOf(i, posts) ==
    [ThreadPath |-> forum[userPosts[i]].thread_path,
     Start |-> forum[userPosts[i]].timestamp,
     End |-> WindowEnd(i),
     Posts |-> posts]

RECURSIVE Windows(_)
\* The windows for the first n user posts, each holding the thread posts in [Start, End).
Windows(n) ==
    IF n = 0 THEN <<>>
    ELSE IF NextInSameThread(n) \/ InRange(n) = {}
         THEN Windows(n - 1)
         ELSE Append(Windows(n - 1), WindowOf(n, InRange(n)))

RECURSIVE WindowsOrFrom(_)
\* The same, with the ranges of InRangeOrFrom.
WindowsOrFrom(n) ==
    IF n = 0 THEN <<>>
    ELSE IF NextInSameThread(n) \/ InRangeOrFrom(n) = {}
         THEN WindowsOrFrom(n - 1)
         ELSE Append(WindowsOrFrom(n - 1), WindowOf(n, InRangeOrFrom(n)))

\* C33 as stated: over the user's posts in ascending timestamp order, no window for a
\* post whose next post is in the same thread; for every other post a window in its thread
\* from its timestamp to the next user post's timestamp, or to max int64 for the last
\* post; windows with no thread post in [start, end) are omitted.
C33_WindowsAsStated ==
    fpc \in {"loop", "done"} /\ ferr = "nil" => conversations = Windows(scannedPosts)

\* C33, amended: as above, but a window whose end is not positive is not limited by its
\* end: it holds every thread post from its start on, and is omitted only when there is
\* none.
C33_Windows ==
    fpc \in {"loop", "done"} /\ ferr = "nil" => conversations = WindowsOrFrom(scannedPosts)

\* Three posts of the user: the first skipped, the second with a window up to the third,
\* the third with an unbounded window.
C33_Witness ==
    /\ fpc = "done"
    /\ ferr = "nil"
    /\ Len(userPosts) = 3
    /\ Len(conversations) = 2
    /\ conversations[1].End \in Times
    /\ conversations[2].End = maxInt64

\* The event ids folded into any snapshot of a channel.
Folded(ch) == UNION {Range(Covered(summaries[i])) : i \in SnapshotsOf(ch)}

\* C34: the covered id list of every snapshot written is non-empty and strictly
\* increasing, and the high-water mark the next refresh of a channel reads, the last
\* element of the latest snapshot's list, is the greatest event id folded for the channel.
C34_HighWaterIsGreatestFolded ==
    /\ \A i \in DOMAIN summaries :
         Covered(summaries[i]) # <<>> /\ Ascending(Covered(summaries[i]))
    /\ \A ch \in Channels :
         SnapshotsOf(ch) # {} =>
            LET mark == LastSeenID(getLatestSummary(summaries, ch, TRUE).summary)
            IN mark \in Folded(ch) /\ \A x \in Folded(ch) : x <= mark

\* A snapshot was written on top of an earlier one of its channel.
C34_Witness ==
    \E i \in DOMAIN written :
        /\ written[i].prior # <<>>
        /\ written[i].fetched # <<>>
        /\ Covered(summaries[i]) = written[i].prior \o written[i].fetched

\* The worker calls the summarizer in this step.
SummarizerCalled == wpc # "openai" /\ wpc' = "openai"

C37_Step ==
    /\ (req.ReplyChan # NoChan \/ req'.ReplyChan # NoChan) =>
          /\ contexts' = contexts
          /\ summaries' = summaries
          /\ arrivals' = arrivals
          /\ ~SummarizerCalled
          /\ wpc' \in {"fetch", "reply", "recv"}
    /\ (contexts' # contexts \/ summaries' # summaries \/ SummarizerCalled) =>
          req.ReplyChan = NoChan /\ req.ChannelID \in Channels

\* C37: while the worker serves a request that carries a reply channel, no event is
\* inserted, no refresh is started, the summarizer is not called and both tables stay as
\* they are; an insert, a snapshot or a summarizer call happens only while the worker
\* serves a request without a reply channel.
C37_FetchIsReadOnly == [][C37_Step]_vars

\* A fetch is being answered for a channel that has events no snapshot covers.
C37_Witness ==
    /\ wpc = "reply"
    /\ req.ReplyChan \in Callers
    /\ Unsummarized(req.ChannelID) # {}

\* The channel of the update the worker is serving, if any.
Serving == IF req.ReplyChan = NoChan THEN req.ChannelID ELSE ""

C38_Step ==
    /\ SnapshotWritten =>
          LET new == summaries'[Len(summaries')]
          IN /\ Len(summaries') = Len(summaries) + 1
             /\ new.channel_id = Serving
             /\ Range(Covered(new)) \subseteq EventIDs(Serving)
    /\ \A ch \in Channels \ {Serving} :
          /\ SnapshotsOf(ch)' = SnapshotsOf(ch)
          /\ getLatestSummary(summaries', ch, TRUE) = getLatestSummary(summaries, ch, TRUE)

\* C38: an append and the refresh it triggers on one channel add a snapshot to that
\* channel only: the snapshots of every other channel, and the latest summary read for
\* it, stay as they are, and the snapshot covers only event ids of its own channel, the
\* ids of both channels coming from one counter.
C38_ChannelsIsolated == [][C38_Step]_vars

\* Both channels have a snapshot, and the one of c1 covers ids on either side of an
\* event of c2.
C38_Witness ==
    /\ SnapshotsOf("c2") # {}
    /\ \E i \in SnapshotsOf("c1") : \E x \in EventIDs("c2") :
          LET ids == Covered(summaries[i])
          IN ids # <<>> /\ ids[1] < x /\ x < ids[Len(ids)]

\* C40: with the memory worker running and handlers calling UpdateMemory and
\* GetMemorySummary in any interleaving, every call eventually returns provided every
\* summarizer call returns.
\* A summarizer call that returns a response without choices makes the worker panic at
\* resp.Choices[0]: no call returns after that.
C40_EveryCallReturns == \A c \in Callers : (cpc[c] # "idle") ~> (cpc[c] = "idle")

\* The handler whose fetch the worker is serving has had its message handled: the INSERT
\* for it has been executed, the row being in the table unless the INSERT failed, and the
\* refresh it triggered is over.
OwnMessageHandled ==
    LET c == req.ReplyChan
        k == posted[c]
    IN /\ k \in DOMAIN arrivals
       /\ arrivals[k].channel = req.ChannelID
       /\ attempts.inserts >= k
       /\ attempts.refreshes >= k
       /\ arrivals[k].id # 0 => arrivals[k].id \in EventIDs(req.ChannelID)

C36_Step ==
    /\ (wpc = "fetch" /\ wpc' = "reply") => OwnMessageHandled
    /\ \A c \in Callers :
          (hpc[c] # "fetch" /\ hpc'[c] = "fetch") => hpc[c] = "commands" /\ posted[c] > 0

\* C36: within one messageCreate, GetMemorySummary is called only after UpdateMemory has
\* returned, and when the worker reads the summary for that fetch it has executed the
\* INSERT of the handler's message and has finished the refresh that message triggered,
\* whatever other handlers do meanwhile.
C36_ReadYourWrites == [][C36_Step]_vars

\* A handler is answered after its own message was stored behind another handler's, while
\* the other handler is still running.
C36_Witness ==
    /\ wpc = "reply"
    /\ posted[req.ReplyChan] = 2
    /\ arrivals[2].id # 0
    /\ \E d \in Callers \ {req.ReplyChan} : hpc[d] = "commands"

====
